---- MODULE Spec2Model ----
(***************************************************************************)
(* Model of the Instagram metrics services of fwarmuth/insta-hardware-     *)
(* counter.  The programs around the metrics store (db/instagram_db.py):   *)
(*   "instagram_api"        scripts/instagram_api.py: CredentialManager,   *)
(*                          get_loader, refresh_metrics_data,              *)
(*                          get_latest_data and its Flask routes, calling  *)
(*                          get_followers.get_instagram_metrics;           *)
(*   "instagram_api_server" scripts/instagram_api_server.py on top of      *)
(*                          insta_wrapper.InstaWrapper;                    *)
(*   "instagram_db"         an InstagramDatabase object driven directly    *)
(*                          through its methods;                           *)
(*   "credential_manager"   a CredentialManager object driven directly     *)
(*                          through its methods;                           *)
(*   "credential_manager_threads"  a CredentialManager shared by the       *)
(*                          request threads of the Flask server, each      *)
(*                          method followed statement by statement.        *)
(* The variable program says which of them a behaviour runs.  Time is in   *)
(* seconds since the start of the run; collection_date strings are the     *)
(* second they denote.  A python None is NoCred / NoLoader / NoValue /     *)
(* the empty sequence, as noted at each variable.                          *)
(***************************************************************************)
EXTENDS Integers, Sequences, FiniteSets, TLC

(***************************************************************************)
(* Bounds of the model.                                                    *)
(***************************************************************************)
MaxCreds == 4
MaxRequests == 2
MaxTime == 1800

\* the clock advances by one of these amounts, times the scale of the run,
\* between two steps: a run is watched over MaxTime at scale 1, the server
\* of instagram_api_server.py over ServerScale times as long, and sessions
\* over DayScale times as long (a day)
TickSteps == {900}

\* values the acquisition collaborator reports for a profile
Followers == {1000}
Posts == {50}
Subjects == {"x"}

\* the rows and usernames of direct calls of InstagramDatabase.store_metrics
MaxRows == 3
\* the greatest limit argument of get_historical_data
MaxLimit == 2
DbUsernames == {"x", "y"}

\* the request threads that share one CredentialManager
Threads == {1, 2}
ServerScale == 4
DayScale == 48
\* the credentials of a run watched over a day
MaxDayCreds == 2
\* the lines of a credentials file, the header line included
MaxFileLines == 3
\* the credentials of the pool that concurrent requests share
MaxThreadCreds == 2
\* the greatest retries argument of get_instagram_metrics
MaxRetriesArg == 2

(***************************************************************************)
(* Program constants.                                                      *)
(***************************************************************************)
CACHE_FRESHNESS_THRESHOLD == 15 * 60
ROTATION_INTERVAL == 30 * 60
SESSION_MAX_AGE_HOURS == 24
WRAPPER_SESSION_TTL == 86400
SERVER_REFRESH_HOURS == 1
MAX_ATTEMPTS == 3
HTTP_OK == 200
HTTP_NOT_FOUND == 404
HTTP_SERVER_ERROR == 500

NoCred == 0
NoValue == -1
\* a collection_date text that is not in the '%Y-%m-%d %H:%M:%S' format
Unparsable == -1
\* the timestamp arguments of direct calls of store_metrics
DbTimestamps == {Unparsable, 900}
NoLoader == [username |-> NoCred]

Min(a, b) == IF a < b THEN a ELSE b

\* Credential lists a credentials file can hold: n distinct credentials, or
\* n - 1 distinct ones with the last row repeated.  A credential is the
\* number of its (email, username, password) triple; equal rows are equal.
CredentialPools ==
    { [i \in 1..n |-> IF d /\ i = n THEN n - 1 ELSE i] :
        n \in 1..MaxCreds, d \in BOOLEAN } \ {<<0>>}

\* the pools whose credentials are pairwise distinct
DistinctPools == { [i \in 1..n |-> i] : n \in 1..MaxCreds }

VARIABLES
    program,                 \* which program runs
    scale,                   \* the time scale the run is watched at
    now,                     \* time.time() / datetime.now(), seconds
    store,                   \* instagram_metrics table, in id order
    credentials,             \* CredentialManager.credentials / InstaWrapper.accounts
    credential_manager_ready,\* _credential_manager is not None
    current_credential,      \* CredentialManager.current_credential (NoCred: None)
    last_rotation_time,      \* CredentialManager.last_rotation_time
    loader,                  \* _loader (NoLoader: None)
    loader_session_username, \* _loader_session_username (NoCred: None)
    loader_created,          \* history: when _loader (in get_followers.py: the
                             \* loader of setup_loader) was created (0: None)
    session_files,           \* mtime of each login's session file (NoValue: no file)
    pc,                      \* position of the request handler
    subject,                 \* username of the request in progress
    latest_metrics,          \* latest_metrics read by the handler (<<>>: None)
    retry_count,             \* retry_count / attempt
    max_retries,             \* max_retries
    result,                  \* what the last call returned
    attempt,                 \* history: the last loop iteration of this call
    tries,                   \* history: loop iterations of this call
    fetch_calls,             \* history: Profile.from_username calls of this call
    store_at_start,          \* history: the store when the call began
    current_index,           \* InstaWrapper.current_index
    loaders,                 \* InstaWrapper.loaders: the usernames it has a loader for
    login_timestamps,        \* InstaWrapper.login_timestamps (NoValue: no entry)
    selection_method,        \* InstaWrapper.selection_method
    rotation,                \* history: the last direct call of _rotate_credential
                             \* (among threads: the last one past its interval check)
    requests,                \* history: requests received so far (of
                             \* "instagram_db": store_metrics calls made)
    credentials_input,       \* the CSV file, or the accounts list, a pool is built from
    construction,            \* history: the last construction of a pool
    handlers,                \* each request thread's position in and locals of get_latest_data
    metrics_call,            \* arguments and return value of the last get_instagram_metrics call
    drawn,                   \* history: the positions the last len(accounts) _get_next_account calls returned
    historical_data,         \* what the last get_historical_data call was given and returned
    threads,                 \* each thread's position in and locals of its call
    lock                     \* CredentialManager.lock: the thread holding it (0: free)

vars == << program, scale, historical_data, drawn, metrics_call, handlers, construction, credentials_input, now, store, credentials, credential_manager_ready,
           current_credential, last_rotation_time, loader,
           loader_session_username, loader_created, session_files, pc, subject,
           latest_metrics, retry_count, max_retries, result, attempt,
           tries, fetch_calls, store_at_start, current_index, loaders,
           login_timestamps, selection_method, rotation, requests,
           threads, lock >>

\* the state of InstaWrapper and the history of direct CredentialManager calls
wrapperVars == << current_index, loaders, login_timestamps, selection_method >>
\* the threads of "credential_manager_threads"
threadVars == << threads, lock >>
\* the module globals of instagram_api.py
apiVars == << credential_manager_ready, current_credential, last_rotation_time,
             loader, loader_session_username, loader_created, session_files >>
\* the locals and the history of the request in progress
requestVars == << pc, subject, latest_metrics, retry_count, max_retries, result,
                 attempt, tries, fetch_calls, store_at_start >>

(***************************************************************************)
(* db/instagram_db.py: the metrics store.                                  *)
(***************************************************************************)
\* faulty variant of StoreMetrics: INSERT OR REPLACE keyed by username
StoreMetricsReplacing(st, username, followers_count, posts_count, recent_posts_count, timestamp) ==
    Append(SelectSeq(st, LAMBDA row : row.username # username),
           [ id |-> Len(st) + 1,
             username |-> username,
             followers_count |-> followers_count,
             posts_count |-> posts_count,
             recent_posts_count |-> recent_posts_count,
             collection_date |-> timestamp ])

\* InstagramDatabase.store_metrics: INSERT one row; its id is AUTOINCREMENT
StoreMetrics(st, username, followers_count, posts_count, recent_posts_count, timestamp) ==
    Append(st, [ id |-> Len(st) + 1,
                 username |-> username,
                 followers_count |-> followers_count,
                 posts_count |-> posts_count,
                 recent_posts_count |-> recent_posts_count,
                 collection_date |-> timestamp ])

\* the columns get_latest_metrics and get_historical_data select
Columns(row) ==
    [ followers_count |-> row.followers_count,
      posts_count |-> row.posts_count,
      recent_posts_count |-> row.recent_posts_count,
      collection_date |-> row.collection_date ]

\* faulty variant of RowsOf: the query has no WHERE clause
RowsOfAnyone(st, username) == 1..Len(st)

\* the rows that WHERE username = ? selects
RowsOf(st, username) == { i \in 1..Len(st) : st[i].username = username }

\* faulty variant of LatestMetrics: ORDER BY id DESC
LatestMetricsLastInserted(st, username) ==
    IF RowsOf(st, username) = {} THEN { <<>> }
    ELSE { << Columns(st[i]) >> :
             i \in { j \in RowsOf(st, username) :
                       \A k \in RowsOf(st, username) : k <= j } }

\* InstagramDatabase.get_latest_metrics: ORDER BY collection_date DESC LIMIT 1.
\* The rows fetchone() may return: <<>> stands for None; among rows with the
\* same greatest collection_date SQL leaves the choice open.
LatestMetrics(st, username) ==
    IF RowsOf(st, username) = {} THEN { <<>> }
    ELSE { << Columns(st[i]) >> :
             i \in { j \in RowsOf(st, username) :
                       \A k \in RowsOf(st, username) :
                           st[k].collection_date <= st[j].collection_date } }

\* faulty variant of HistoricalData: ORDER BY collection_date ASC
HistoricalDataAscending(st, username, limit) ==
    LET rows == RowsOf(st, username)
        n == Cardinality(rows)
        m == IF limit < n THEN limit ELSE n
        orders == { f \in [1..n -> rows] :
                      /\ \A i, j \in 1..n : i # j => f[i] # f[j]
                      /\ \A i, j \in 1..n :
                             i < j => st[f[i]].collection_date <= st[f[j]].collection_date }
    IN  { [i \in 1..m |-> Columns(st[f[i]])] : f \in orders }

\* InstagramDatabase.get_historical_data: ORDER BY collection_date DESC
\* LIMIT limit.  The lists fetchall() may return: among rows with the same
\* collection_date SQL leaves the order open.
HistoricalData(st, username, limit) ==
    LET rows == RowsOf(st, username)
        n == Cardinality(rows)
        m == IF limit < n THEN limit ELSE n
        orders == { f \in [1..n -> rows] :
                      /\ \A i, j \in 1..n : i # j => f[i] # f[j]
                      /\ \A i, j \in 1..n :
                             i < j => st[f[i]].collection_date >= st[f[j]].collection_date }
    IN  { [i \in 1..m |-> Columns(st[f[i]])] : f \in orders }

\* no get_historical_data call has returned
NoHistoricalData == [ called |-> FALSE, limit |-> 0, rows |-> <<>> ]

(***************************************************************************)
(* Timestamps: strftime('%Y-%m-%d %H:%M:%S') and strptime of the same      *)
(* format.  The clock shows whole seconds, on which the format loses       *)
(* nothing: a collection_date is the second it denotes; a text that does   *)
(* not have the format is a negative number.                               *)
(***************************************************************************)
Strftime(t) == t
StrptimeFails(collection_date) == collection_date < 0
Strptime(collection_date) == collection_date

(***************************************************************************)
(* instagram_api.py: CredentialManager.                                    *)
(***************************************************************************)
\* the candidates of a rotation (available_credentials)
AvailableCredentials(creds, current) ==
    IF Len(creds) > 1
    THEN SelectSeq(creds, LAMBDA c : c # current)
    ELSE creds

\* whether _rotate_credential goes past its interval check
RotationDue(lrt, t, force) == force \/ ~(t - lrt < ROTATION_INTERVAL)

\* the indices random.choice may draw for a call
Picks(creds, current, lrt, t, force) ==
    IF RotationDue(lrt, t, force) /\ AvailableCredentials(creds, current) # <<>>
    THEN 1..Len(AvailableCredentials(creds, current))
    ELSE {1}

\* CredentialManager._rotate_credential: what it returns ("IndexError" when
\* random.choice raises on an empty list) and the fields it leaves
RotateCredential(creds, current, lrt, t, force, pick) ==
    IF ~RotationDue(lrt, t, force)
    THEN [ ret |-> "False", current_credential |-> current, last_rotation_time |-> lrt ]
    ELSE IF AvailableCredentials(creds, current) = <<>>
    THEN [ ret |-> "IndexError", current_credential |-> current, last_rotation_time |-> lrt ]
    ELSE [ ret |-> "True",
           current_credential |-> AvailableCredentials(creds, current)[pick],
           last_rotation_time |-> t ]

\* faulty variant of NewCredentialManager: the constructor does not rotate
NewCredentialManagerNoRotation(creds, t, pick) ==
    [ ret |-> "False", current_credential |-> NoCred, last_rotation_time |-> 0 ]

\* CredentialManager.__init__ after _load_credentials: a forced rotation from
\* current_credential = None, last_rotation_time = 0
NewCredentialManager(creds, t, pick) ==
    RotateCredential(creds, NoCred, 0, t, TRUE, pick)

\* the manager get_loader and refresh_metrics_data see: init_credential_manager
\* builds it on first use
CredentialManagerState(t, pick) ==
    IF credential_manager_ready
    THEN [ ret |-> "False", current_credential |-> current_credential,
           last_rotation_time |-> last_rotation_time ]
    ELSE NewCredentialManager(credentials, t, pick)

(***************************************************************************)
(* get_followers.py                                                        *)
(***************************************************************************)
\* is_session_valid: the session file exists and is less than 24 hours old
\* (age_hours = seconds / 3600 < 24)
IsSessionValid(files, username, t) ==
    /\ username # NoCred
    /\ files[username] # NoValue
    /\ t - files[username] < SESSION_MAX_AGE_HOURS * 3600

\* outcomes of Profile.from_username
FetchOutcomes == {"ok", "NotFound", "RateLimited", "ConnError"}

\* get_instagram_metrics called with a loader and retries = 1: the metrics
\* dict, or <<>> for None (ConnectionException, of which TooManyRequests is
\* a kind, ends the one-attempt loop; ProfileNotExists and any other error
\* return (None, None) at once)
GetInstagramMetrics(outcome, followers, posts) ==
    IF outcome = "ok"
    THEN << [ followers |-> followers, posts |-> posts ] >>
    ELSE <<>>

\* faulty variant of StoreMetricsInDb: the posts count is stored as the
\* followers count
StoreMetricsInDbSwapped(st, username, metrics, t, insert_ok) ==
    IF insert_ok
    THEN StoreMetrics(st, username, metrics.posts, metrics.posts, NoValue, Strftime(t))
    ELSE st

\* store_metrics_in_db: the store it leaves; a failing INSERT is caught and
\* logged, and the record id is then None
StoreMetricsInDb(st, username, metrics, t, insert_ok) ==
    IF insert_ok
    THEN StoreMetrics(st, username, metrics.followers, metrics.posts, NoValue, Strftime(t))
    ELSE st

\* faulty variant of SetupLoader: a session file is restored whatever its age
SetupLoaderAnyAge(files, login_username, login_password, load_ok, login_ok, t) ==
    IF login_username = NoCred \/ ~login_password
    THEN [ ret |-> "anonymous", session_files |-> files, restore |-> "none",
           login |-> "none" ]
    ELSE IF files[login_username] # NoValue /\ load_ok
    THEN [ ret |-> "restored", session_files |-> files, restore |-> "ok",
           login |-> "none" ]
    ELSE IF login_ok
    THEN [ ret |-> "login",
           session_files |-> [files EXCEPT ![login_username] = t],
           restore |-> IF files[login_username] # NoValue THEN "failed" ELSE "none",
           login |-> "ok" ]
    ELSE [ ret |-> "None", session_files |-> files,
           restore |-> IF files[login_username] # NoValue THEN "failed" ELSE "none",
           login |-> "failed" ]

\* setup_loader(login_username, login_password): what it returns (an
\* unauthenticated loader without credentials, a loader with the restored
\* session, a loader freshly logged in, or None), the session files it
\* leaves, and how load_session_from_file and login ended ("none": not
\* called).  login_password says whether a password is given.  load_ok:
\* load_session_from_file succeeds; login_ok: login and
\* save_session_to_file succeed.
SetupLoader(files, login_username, login_password, load_ok, login_ok, t) ==
    IF login_username = NoCred \/ ~login_password
    THEN [ ret |-> "anonymous", session_files |-> files, restore |-> "none",
           login |-> "none" ]
    ELSE IF IsSessionValid(files, login_username, t) /\ load_ok
    THEN [ ret |-> "restored", session_files |-> files, restore |-> "ok",
           login |-> "none" ]
    ELSE IF login_ok
    THEN [ ret |-> "login",
           session_files |-> [files EXCEPT ![login_username] = t],
           restore |-> IF IsSessionValid(files, login_username, t)
                       THEN "failed" ELSE "none",
           login |-> "ok" ]
    ELSE [ ret |-> "None", session_files |-> files,
           restore |-> IF IsSessionValid(files, login_username, t)
                       THEN "failed" ELSE "none",
           login |-> "failed" ]

\* outcomes of Profile.from_username as get_instagram_metrics tells them
\* apart: "OtherError" is an exception that is neither a
\* ConnectionException nor ProfileNotExistsException
MetricsOutcomes == FetchOutcomes \cup {"OtherError"}

\* the outcomes caught by `except instaloader.exceptions.ConnectionException`
\* (TooManyRequestsException is a ConnectionException)
ConnectionExceptions == {"ConnError", "RateLimited"}

\* faulty variant of MetricsStep: every error is retried
MetricsStepRetriesAll(outcome, index, retries) ==
    IF outcome = "ok" THEN "break"
    ELSE IF index < retries - 1 THEN "retry"
    ELSE "exhausted"

\* get_instagram_metrics, the iteration with this index of `for attempt in
\* range(retries)`:
\* "break" with metrics, "retry" after the sleep, "exhausted" when the loop
\* ends without metrics, "return" for return None, None
MetricsStep(outcome, index, retries) ==
    IF outcome = "ok" THEN "break"
    ELSE IF outcome \in ConnectionExceptions
    THEN IF index < retries - 1 THEN "retry" ELSE "exhausted"
    ELSE "return"

\* the arguments of a get_instagram_metrics call (loader says whether one is
\* passed) and the pair it returned (<<>>, NoValue: None)
NoMetricsCall ==
    [ store_in_db |-> FALSE, login_username |-> NoCred, login_password |-> FALSE,
      loader |-> FALSE, returned |-> FALSE, metrics |-> <<>>,
      db_record_id |-> NoValue ]

(***************************************************************************)
(* instagram_api.py: get_loader.                                           *)
(***************************************************************************)
\* an Instaloader whose context is logged in as username
NewLoader(username) == [ username |-> username ]

\* faulty variant of GetLoader: the memoised loader is returned whatever
\* username it was created for
GetLoaderAnyMemo(rot, force_new, load_ok, login_ok, t) ==
    LET username == rot.current_credential
        base == [ current_credential |-> rot.current_credential,
                  last_rotation_time |-> rot.last_rotation_time,
                  username |-> username ]
    IN  IF rot.ret = "IndexError"
        THEN base @@ [ ret |-> NoLoader, loader |-> NoLoader,
                       loader_session_username |-> NoCred, loader_created |-> 0,
                       session_files |-> session_files, session |-> "failed",
                       restore |-> "none", login |-> "none" ]
        ELSE IF ~force_new /\ loader # NoLoader
        THEN base @@ [ ret |-> loader, loader |-> loader,
                       loader_session_username |-> loader_session_username,
                       loader_created |-> loader_created,
                       session_files |-> session_files, session |-> "memo",
                       restore |-> "none", login |-> "none" ]
        ELSE IF IsSessionValid(session_files, username, t) /\ load_ok
        THEN base @@ [ ret |-> NewLoader(username), loader |-> NewLoader(username),
                       loader_session_username |-> username, loader_created |-> t,
                       session_files |-> session_files, session |-> "restored",
                       restore |-> "ok", login |-> "none" ]
        ELSE IF login_ok
        THEN base @@ [ ret |-> NewLoader(username), loader |-> NewLoader(username),
                       loader_session_username |-> username, loader_created |-> t,
                       session_files |-> [session_files EXCEPT ![username] = t],
                       session |-> "login",
                       restore |-> IF IsSessionValid(session_files, username, t)
                                   THEN "failed" ELSE "none",
                       login |-> "ok" ]
        ELSE base @@ [ ret |-> NoLoader, loader |-> NoLoader,
                       loader_session_username |-> NoCred, loader_created |-> 0,
                       session_files |-> session_files, session |-> "failed",
                       restore |-> IF IsSessionValid(session_files, username, t)
                                   THEN "failed" ELSE "none",
                       login |-> "failed" ]

\* get_loader(force_new) on manager state cm (after get_current_credentials'
\* own non-forced rotation rot): the loader returned (ret, NoLoader for
\* None), the globals and session files it leaves, and how the session was
\* obtained: restore and login say whether load_session_from_file and login
\* were called ("none": not called) and how they ended.  load_ok:
\* load_session_from_file succeeds; login_ok: login and
\* save_session_to_file succeed.  loader_created is the time of
\* _loader = instaloader.Instaloader().
GetLoader(rot, force_new, load_ok, login_ok, t) ==
    LET username == rot.current_credential
        base == [ current_credential |-> rot.current_credential,
                  last_rotation_time |-> rot.last_rotation_time,
                  username |-> username ]
    IN  IF rot.ret = "IndexError"
        THEN base @@ [ ret |-> NoLoader, loader |-> NoLoader,
                       loader_session_username |-> NoCred, loader_created |-> 0,
                       session_files |-> session_files, session |-> "failed",
                       restore |-> "none", login |-> "none" ]
        ELSE IF ~force_new /\ loader # NoLoader /\ loader_session_username = username
        THEN base @@ [ ret |-> loader, loader |-> loader,
                       loader_session_username |-> loader_session_username,
                       loader_created |-> loader_created,
                       session_files |-> session_files, session |-> "memo",
                       restore |-> "none", login |-> "none" ]
        ELSE IF IsSessionValid(session_files, username, t) /\ load_ok
        THEN base @@ [ ret |-> NewLoader(username), loader |-> NewLoader(username),
                       loader_session_username |-> username, loader_created |-> t,
                       session_files |-> session_files, session |-> "restored",
                       restore |-> "ok", login |-> "none" ]
        ELSE IF login_ok
        THEN base @@ [ ret |-> NewLoader(username), loader |-> NewLoader(username),
                       loader_session_username |-> username, loader_created |-> t,
                       session_files |-> [session_files EXCEPT ![username] = t],
                       session |-> "login",
                       restore |-> IF IsSessionValid(session_files, username, t)
                                   THEN "failed" ELSE "none",
                       login |-> "ok" ]
        ELSE base @@ [ ret |-> NoLoader, loader |-> NoLoader,
                       loader_session_username |-> NoCred, loader_created |-> 0,
                       session_files |-> session_files, session |-> "failed",
                       restore |-> IF IsSessionValid(session_files, username, t)
                                   THEN "failed" ELSE "none",
                       login |-> "failed" ]

(***************************************************************************)
(* instagram_api.py: refresh_metrics_data and get_latest_data.             *)
(***************************************************************************)
\* what a call returns, as the HTTP response the Flask route makes of it
Response(status, error, message, followers_count, posts_count, recent_posts_count, last_updated, note, reported_attempts) ==
    [ status |-> status, error |-> error, message |-> message,
      followers_count |-> followers_count, posts_count |-> posts_count,
      recent_posts_count |-> recent_posts_count, last_updated |-> last_updated,
      note |-> note, reported_attempts |-> reported_attempts ]

NoResult == Response(NoValue, FALSE, "none", NoValue, NoValue, NoValue, NoValue, FALSE, NoValue)

\* faulty variant of MaxRetries: the attempts are not capped at three
MaxRetriesUncapped(creds) == Len(creds)

\* max_retries = min(3, len(credential_manager.credentials))
MaxRetries(creds) == Min(MAX_ATTEMPTS, Len(creds))

\* faulty variant of NextRetryCount: a failed iteration leaves retry_count
NextRetryCountStuck(count) == count

\* refresh_metrics_data: retry_count += 1 after an iteration without metrics
NextRetryCount(count) == count + 1

\* refresh_metrics_data: the dict returned when get_loader gives None
AuthenticationFailed ==
    Response(HTTP_OK, TRUE, "Authentication failed, could not retrieve metrics",
             NoValue, NoValue, NoValue, NoValue, FALSE, NoValue)

\* refresh_metrics_data: the dict returned after the loop
AllAttemptsFailed(max) ==
    Response(HTTP_OK, TRUE, "Could not retrieve metrics after max_retries attempts",
             NoValue, NoValue, NoValue, NoValue, FALSE, max)

\* refresh_metrics_data: the dict returned on success
Refreshed(metrics, t) ==
    Response(HTTP_OK, FALSE, "", metrics.followers, metrics.posts, NoValue,
             Strftime(t), FALSE, NoValue)

\* get_latest_data: the cached row as a result; note is the
\* "Data refresh failed, showing cached data" entry
Cached(row, note) ==
    Response(HTTP_OK, FALSE, "", row.followers_count, row.posts_count,
             row.recent_posts_count, row.collection_date, note, NoValue)

\* faulty variant of NeedsRefresh: the comparison is the wrong way round
NeedsRefreshReversed(latest, t) ==
    IF latest = <<>> THEN TRUE
    ELSE IF StrptimeFails(latest[1].collection_date) THEN TRUE
    ELSE t - Strptime(latest[1].collection_date) < CACHE_FRESHNESS_THRESHOLD

\* faulty variant of NeedsRefresh: the freshness check is skipped
NeedsRefreshAlways(latest, t) == TRUE

\* get_latest_data: needs_refresh after the freshness check of latest
NeedsRefresh(latest, t) ==
    IF latest = <<>> THEN TRUE
    ELSE IF StrptimeFails(latest[1].collection_date) THEN TRUE
    ELSE ~(t - Strptime(latest[1].collection_date) < CACHE_FRESHNESS_THRESHOLD)

\* the freshness class get_latest_data gives what it read at time t: no
\* record, one it serves, or one it refreshes
Classify(latest, t) ==
    IF latest = <<>> THEN "ABSENT"
    ELSE IF NeedsRefresh(latest, t) THEN "STALE"
    ELSE "FRESH"

\* faulty variant of AfterRefresh: the error of a failed refresh is returned
\* although a record is cached
AfterRefreshNoFallback(latest, refreshed_data, success) == refreshed_data

\* get_latest_data: what it returns once refresh_metrics_data has returned
\* (refreshed_data, success)
AfterRefresh(latest, refreshed_data, success) ==
    IF success THEN refreshed_data
    ELSE IF latest # <<>> THEN Cached(latest[1], TRUE)
    ELSE refreshed_data

(***************************************************************************)
(* Building the pools: CredentialManager.__init__ and _load_credentials,   *)
(* InstaWrapper.__init__ and load_accounts_from_csv.  A line of the CSV    *)
(* file is what the parsers look at: whether it has a second column, and   *)
(* how many colons the second column holds.  The credential of a row is    *)
(* its number.                                                             *)
(***************************************************************************)
RowKinds == { "one_column", "no_colon", "one_colon", "two_colons" }

\* the CSV files with up to MaxFileLines lines, and the missing file
CredentialFiles ==
    { [ kind |-> "csv_file", exists |-> FALSE, lines |-> <<>>, accounts |-> <<>> ] }
    \cup { [ kind |-> "csv_file", exists |-> TRUE, lines |-> l, accounts |-> <<>> ] :
             l \in UNION { [1..n -> RowKinds] : n \in 0..MaxFileLines } }

\* the accounts argument of InstaWrapper: None or [], or a list of accounts
AccountLists ==
    { [ kind |-> "accounts", exists |-> FALSE, lines |-> <<>>, accounts |-> a ] :
        a \in { <<>>, <<1>>, <<1, 2>> } }

CredentialInputs == CredentialFiles \cup AccountLists

\* the file a loaded pool came from: a header and one well-formed row each
InputOf(creds) ==
    [ kind |-> "csv_file", exists |-> TRUE,
      lines |-> <<"no_colon">> \o [i \in 1..Len(creds) |-> "one_colon"],
      accounts |-> <<>> ]

\* the rows of a file after its first line, which both parsers skip
DataRows(file) ==
    [ i \in 1..(Len(file.lines) - 1) |-> [ kind |-> file.lines[i + 1], id |-> i ] ]

\* the credentials of the rows a parser accepts, in file order
Accepted(rows, kinds) ==
    LET kept == SelectSeq(rows, LAMBDA row : row.kind \in kinds)
    IN  [ i \in 1..Len(kept) |-> kept[i].id ]

\* faulty variant of LoadCredentials: an empty list is not refused
LoadCredentialsUnchecked(file) ==
    IF ~file.exists
    THEN [ raised |-> "FileNotFoundError", credentials |-> <<>> ]
    ELSE IF file.lines = <<>>
    THEN [ raised |-> "StopIteration", credentials |-> <<>> ]
    ELSE [ raised |-> "none",
           credentials |->
               LET kept == SelectSeq([ i \in 1..(Len(file.lines) - 1) |->
                                         [ kind |-> file.lines[i + 1], id |-> i ] ],
                                     LAMBDA row : row.kind = "one_colon")
               IN  [ i \in 1..Len(kept) |-> kept[i].id ] ]

\* CredentialManager._load_credentials: a row counts when it has two columns
\* and the second splits at ':' into exactly two parts; next(reader) raises
\* StopIteration on a file without lines
LoadCredentials(file) ==
    IF ~file.exists
    THEN [ raised |-> "FileNotFoundError", credentials |-> <<>> ]
    ELSE IF file.lines = <<>>
    THEN [ raised |-> "StopIteration", credentials |-> <<>> ]
    ELSE IF Accepted(DataRows(file), {"one_colon"}) = <<>>
    THEN [ raised |-> "ValueError", credentials |-> <<>> ]
    ELSE [ raised |-> "none",
           credentials |-> Accepted(DataRows(file), {"one_colon"}) ]

\* InstaWrapper.load_accounts_from_csv: a row counts when it has two columns
\* and the second holds a ':' (it is split at the first one)
LoadAccountsFromCsv(file) ==
    IF ~file.exists
    THEN [ raised |-> "FileNotFoundError", accounts |-> <<>> ]
    ELSE IF Accepted(DataRows(file), {"one_colon", "two_colons"}) = <<>>
    THEN [ raised |-> "ValueError", accounts |-> <<>> ]
    ELSE [ raised |-> "none",
           accounts |-> Accepted(DataRows(file), {"one_colon", "two_colons"}) ]

\* InstaWrapper.__init__(accounts, csv_file): the accounts it ends with, or
\* the exception it raises
NewInstaWrapper(input) ==
    LET loaded == IF input.kind = "csv_file"
                  THEN LoadAccountsFromCsv(input)
                  ELSE [ raised |-> "none", accounts |-> input.accounts ]
    IN  IF loaded.raised # "none" THEN loaded
        ELSE IF loaded.accounts = <<>>
        THEN [ raised |-> "ValueError", accounts |-> <<>> ]
        ELSE loaded

\* history of the constructions: for each class "not called", "built" or
\* the exception its last construction raised
NoConstruction == [ manager |-> "not called", wrapper |-> "not called" ]

(***************************************************************************)
(* Initial state: the process has started, nothing has been requested,     *)
(* the store and the session directory are empty.                          *)
(***************************************************************************)
Programs ==
    { "instagram_api", "instagram_api_server", "instagram_db",
      "credential_manager", "credential_manager_threads",
      "credential_loading", "instagram_api_threads", "get_followers",
      "get_loader_threads", "instagram_api_clock" }

\* instagram_api.py, watched with a clock that does not move inside a
\* handler, and with one that can show the next second at a later read
ApiPrograms == { "instagram_api", "instagram_api_clock" }

\* the seconds that can pass between the clock read of store_metrics_in_db
\* and the clock read of refresh_metrics_data that follows it
Elapsed(prog) == IF prog = "instagram_api_clock" THEN {0, 1} ELSE {0}

\* the scales a program is watched at
Scales(prog) ==
    IF prog \in {"instagram_api", "get_followers"} THEN {1, DayScale}
    ELSE IF prog = "instagram_api_server" THEN {ServerScale, DayScale}
    ELSE {1}

\* what the table holds when the process starts: nothing, or a record of the
\* subject that another client of InstagramDatabase.store_metrics wrote with
\* a timestamp that is not in the format
InitialStores ==
    { <<>>, StoreMetrics(<<>>, "x", 500, 20, 0, Unparsable) }

\* history of a direct call of _rotate_credential: its argument, what it
\* returned, the credential and the last_rotation_time it found, and the time
\* it read
NoRotation ==
    [ called |-> FALSE, force |-> FALSE, ret |-> "none", before |-> NoCred,
      before_time |-> 0, at |-> 0 ]

\* history of a loop iteration: the login it ran as, how its session was
\* obtained ("memo", "restored", "login", "failed") and, for "memo", how long
\* before the iteration the loader was created, what the fetch reported
\* ("none": no fetch), whether a record was stored, and the login and
\* outcome of the iteration before it; followers and posts are what the
\* fetch returned; artifact_age is the age of the login's session file
\* when the session was not memoized (NoValue: no file), restore and login
\* how load_session_from_file and login ended ("none": not called)
NoAttempt == [ credential |-> NoCred, session |-> "none", session_age |-> 0,
               artifact_age |-> NoValue, restore |-> "none", login |-> "none",
               outcome |-> "none",
               followers |-> NoValue, posts |-> NoValue, stored |-> FALSE,
               previous |-> NoCred, previous_outcome |-> "none" ]

\* what the table holds when concurrent requests arrive: nothing, or a
\* record of the subject collected when the clock started
RequestStores ==
    { <<>>, StoreMetrics(<<>>, "x", 500, 20, 0, Strftime(0)) }

\* a request thread outside get_latest_data: its locals latest_metrics,
\* retry_count, max_retries, metrics and db_record_id (NoValue: None), what
\* its last fetch reported and what it returned
IdleHandler ==
    [ pc |-> "idle", latest_metrics |-> <<>>, retry_count |-> 0,
      max_retries |-> 0, outcome |-> "none", metrics |-> <<>>,
      db_record_id |-> NoValue, result |-> NoResult ]

\* a request thread outside get_loader, in the program that follows
\* get_loader statement by statement: its argument force_new, its local
\* username, the state of the Instaloader it created ("none", "created",
\* "authenticated"), and what its last call returned: ret is the loader
\* (NoLoader: None), ret_authenticated whether that loader had completed
\* load_session_from_file or login when it was returned
IdleCaller ==
    [ pc |-> "idle", force_new |-> FALSE, username |-> NoCred, object |-> "none",
      ret |-> NoLoader, ret_authenticated |-> FALSE ]

\* a thread outside any call of the CredentialManager
IdleThread ==
    [ pc |-> "idle", op |-> "none", force |-> FALSE, current_time |-> 0,
      found_time |-> 0, ret |-> "none", selected |-> NoCred,
      username |-> NoCred, password |-> NoCred ]

Init ==
    /\ program \in Programs
    /\ scale \in Scales(program)
    /\ now = 0
    /\ store \in IF program = "instagram_api_threads" THEN RequestStores
                ELSE InitialStores
    /\ IF program = "credential_loading"
       THEN /\ credentials = <<>>
            /\ credentials_input \in CredentialInputs
       ELSE /\ credentials \in CredentialPools
            /\ credentials_input = InputOf(credentials)
    /\ credential_manager_ready = FALSE
    /\ current_credential = NoCred
    /\ last_rotation_time = 0
    /\ loader = NoLoader
    /\ loader_session_username = NoCred
    /\ loader_created = 0
    /\ session_files = [c \in 1..MaxCreds |-> NoValue]
    /\ pc = "idle"
    /\ subject = "x"
    /\ latest_metrics = <<>>
    /\ retry_count = 0
    /\ max_retries = 0
    /\ result = NoResult
    /\ attempt = NoAttempt
    /\ tries = 0
    /\ fetch_calls = 0
    /\ store_at_start = <<>>
    /\ current_index = 0
    /\ loaders = {}
    /\ login_timestamps = [c \in 1..MaxCreds |-> NoValue]
    /\ selection_method = "roundrobin"
    /\ rotation = NoRotation
    /\ requests = 0
    /\ threads = [t \in Threads |-> IdleThread]
    /\ lock = 0
    /\ historical_data = NoHistoricalData
    /\ drawn = <<>>
    /\ metrics_call = NoMetricsCall
    /\ handlers = [h \in Threads |-> IF program = "get_loader_threads"
                                      THEN IdleCaller ELSE IdleHandler]
    /\ construction = NoConstruction

\* time passes (while no response is being handed over)
Tick ==
    /\ pc # "done"
    /\ \E d \in TickSteps :
         /\ now + scale * d <= scale * MaxTime
         /\ now' = now + scale * d
    /\ UNCHANGED << program, scale, historical_data, drawn, metrics_call, handlers, construction, credentials_input, threadVars, store, credentials, apiVars, requestVars,
                    wrapperVars, rotation, requests >>

\* get_latest_data(username) up to the loop of refresh_metrics_data: the read
\* of the store and the freshness check; a fresh record is returned at once,
\* otherwise refresh_metrics_data starts (init_credential_manager,
\* retry_count = 0, max_retries)
GetLatestData ==
    /\ program \in ApiPrograms
    /\ pc = "idle"
    /\ requests < MaxRequests
    /\ requests' = requests + 1
    /\ \E username \in Subjects, pick \in 1..MaxCreds :
       \E latest \in LatestMetrics(store, username) :
         /\ pick \in Picks(credentials, NoCred, 0, now, TRUE)
         /\ subject' = username
         /\ latest_metrics' = latest
         /\ attempt' = NoAttempt
         /\ tries' = 0
         /\ fetch_calls' = 0
         /\ store_at_start' = store
         /\ retry_count' = 0
         /\ IF NeedsRefresh(latest, now)
            THEN /\ pc' = "refresh"
                 /\ result' = NoResult
                 /\ max_retries' = MaxRetries(credentials)
                 /\ credential_manager_ready' = TRUE
                 /\ current_credential' = CredentialManagerState(now, pick).current_credential
                 /\ last_rotation_time' = CredentialManagerState(now, pick).last_rotation_time
            ELSE /\ pc' = "done"
                 /\ result' = Cached(latest[1], FALSE)
                 /\ max_retries' = 0
                 /\ UNCHANGED << credential_manager_ready, current_credential,
                                 last_rotation_time >>
    /\ UNCHANGED << program, scale, historical_data, drawn, metrics_call, handlers, construction, credentials_input, threadVars, now, store, credentials, loader,
                    loader_session_username, loader_created, session_files,
                    wrapperVars, rotation >>

\* one iteration of the loop of refresh_metrics_data: get_loader, then
\* get_instagram_metrics; when the iteration returns or is the last one,
\* the rest of refresh_metrics_data and of get_latest_data with it
RefreshAttempt ==
    /\ program \in ApiPrograms
    /\ pc = "refresh"
    /\ retry_count < max_retries
    /\ tries' = tries + 1
    /\ \E pick \in Picks(credentials, current_credential, last_rotation_time, now, FALSE) :
       \E load_ok \in BOOLEAN, login_ok \in BOOLEAN :
         LET rot == RotateCredential(credentials, current_credential,
                                     last_rotation_time, now, FALSE, pick)
             gl == GetLoader(rot, retry_count > 0, load_ok, login_ok, now)
         IN  \* an input that is not consulted is not varied
             /\ ~load_ok => gl # GetLoader(rot, retry_count > 0, TRUE, login_ok, now)
             /\ ~login_ok => gl # GetLoader(rot, retry_count > 0, load_ok, TRUE, now)
             /\ current_credential' = gl.current_credential
             /\ last_rotation_time' = gl.last_rotation_time
             /\ loader' = gl.loader
             /\ loader_session_username' = gl.loader_session_username
             /\ loader_created' = gl.loader_created
             /\ session_files' = gl.session_files
             /\ fetch_calls' = IF gl.ret = NoLoader THEN fetch_calls ELSE fetch_calls + 1
             /\ \E outcome \in FetchOutcomes, followers \in Followers, posts \in Posts,
                   insert_ok \in BOOLEAN, elapsed \in Elapsed(program) :
                  LET metrics == GetInstagramMetrics(outcome, followers, posts)
                      entry == [ credential |-> gl.username, session |-> gl.session,
                                 session_age |-> IF gl.session = "memo"
                                                 THEN now - loader_created ELSE 0,
                                 artifact_age |-> IF gl.session = "memo"
                                                     \/ gl.username = NoCred
                                                     \/ session_files[gl.username] = NoValue
                                                  THEN NoValue
                                                  ELSE now - session_files[gl.username],
                                 restore |-> gl.restore,
                                 login |-> gl.login,
                                 outcome |-> IF gl.ret = NoLoader THEN "none" ELSE outcome,
                                 followers |-> IF gl.ret # NoLoader /\ outcome = "ok"
                                               THEN followers ELSE NoValue,
                                 posts |-> IF gl.ret # NoLoader /\ outcome = "ok"
                                           THEN posts ELSE NoValue,
                                 stored |-> gl.ret # NoLoader /\ metrics # <<>> /\ insert_ok,
                                 previous |-> attempt.credential,
                                 previous_outcome |-> attempt.outcome ]
                  IN  /\ gl.ret = NoLoader => outcome = "ok"
                      /\ (gl.ret = NoLoader \/ outcome # "ok") =>
                             (insert_ok /\ \A f \in Followers : followers <= f)
                      /\ (gl.ret = NoLoader \/ outcome # "ok") => elapsed = 0
                      /\ now' = now + elapsed
                      /\ attempt' = entry
                      /\ IF gl.ret = NoLoader
                         THEN /\ result' = AfterRefresh(latest_metrics, AuthenticationFailed, FALSE)
                              /\ pc' = "done"
                              /\ UNCHANGED << store, retry_count >>
                         ELSE IF metrics # <<>>
                         THEN /\ store' = StoreMetricsInDb(store, subject, metrics[1], now, insert_ok)
                              /\ result' = AfterRefresh(latest_metrics,
                                                        Refreshed(metrics[1], now + elapsed), TRUE)
                              /\ pc' = "done"
                              /\ UNCHANGED retry_count
                         ELSE /\ retry_count' = NextRetryCount(retry_count)
                              /\ UNCHANGED store
                              /\ IF NextRetryCount(retry_count) < max_retries
                                 THEN /\ pc' = "refresh"
                                      /\ UNCHANGED result
                                 ELSE /\ pc' = "done"
                                      /\ result' = AfterRefresh(latest_metrics,
                                                                AllAttemptsFailed(max_retries), FALSE)
    /\ UNCHANGED << program, scale, historical_data, drawn, metrics_call, handlers, construction, credentials_input, threadVars, credentials, credential_manager_ready, subject,
                    latest_metrics, max_retries, store_at_start, wrapperVars,
                    rotation, requests >>

\* the response has been handed to the client
Return ==
    /\ pc = "done"
    /\ pc' = "idle"
    /\ result' = NoResult
    /\ attempt' = NoAttempt
    /\ tries' = 0
    /\ fetch_calls' = 0
    /\ retry_count' = 0
    /\ max_retries' = 0
    /\ latest_metrics' = <<>>
    /\ store_at_start' = <<>>
    /\ historical_data' = NoHistoricalData
    /\ UNCHANGED << program, scale, drawn, metrics_call, handlers, construction, credentials_input, threadVars, now, store, credentials, apiVars, subject,
                    wrapperVars, rotation, requests >>

(***************************************************************************)
(* insta_wrapper.py: InstaWrapper.                                         *)
(***************************************************************************)
\* faulty variant of GetNextAccount: current_index is not advanced
GetNextAccountStuck(method, accounts, index, pick) ==
    IF method = "random"
    THEN [ account |-> accounts[pick], position |-> pick, current_index |-> index ]
    ELSE [ account |-> accounts[index + 1], position |-> index + 1,
           current_index |-> index ]

\* _get_next_account: the account, its position in the list (from 1) and
\* the index it leaves; pick is the position random.choice draws
GetNextAccount(method, accounts, index, pick) ==
    IF method = "random"
    THEN [ account |-> accounts[pick], position |-> pick, current_index |-> index ]
    ELSE [ account |-> accounts[index + 1], position |-> index + 1,
           current_index |-> (index + 1) % Len(accounts) ]

\* the history of positions after one more call: the last len(accounts)
LastDrawn(history, position, accounts) ==
    LET all == Append(history, position)
    IN  IF Len(all) <= Len(accounts) THEN all
        ELSE SubSeq(all, Len(all) - Len(accounts) + 1, Len(all))

\* faulty variant of WrapperGetLoader: the loader is recorded before the
\* login, and stays when the login raises
WrapperGetLoaderCachesFailure(lds, stamps, username, t, login_ok) ==
    IF username \in lds /\ t - stamps[username] < WRAPPER_SESSION_TTL
    THEN [ ok |-> TRUE, loaders |-> lds, login_timestamps |-> stamps,
           session |-> "memo" ]
    ELSE [ ok |-> login_ok, loaders |-> lds \cup {username},
           login_timestamps |-> [stamps EXCEPT ![username] = t],
           session |-> IF login_ok THEN "login" ELSE "failed" ]

\* _get_loader: the cached loader while it is younger than 24 hours, else a
\* login; ok is FALSE when login raises, and nothing is recorded then
WrapperGetLoader(lds, stamps, username, t, login_ok) ==
    IF username \in lds /\ t - stamps[username] < WRAPPER_SESSION_TTL
    THEN [ ok |-> TRUE, loaders |-> lds, login_timestamps |-> stamps,
           session |-> "memo" ]
    ELSE IF login_ok
    THEN [ ok |-> TRUE, loaders |-> lds \cup {username},
           login_timestamps |-> [stamps EXCEPT ![username] = t],
           session |-> "login" ]
    ELSE [ ok |-> FALSE, loaders |-> lds, login_timestamps |-> stamps,
           session |-> "failed" ]

\* get_profile: the iterations of its loop, range(min(3, len(self.accounts)))
WrapperAttempts(accounts) == Min(MAX_ATTEMPTS, Len(accounts))

\* get_profile, one iteration with index i: how it ends.  "profile" and
\* "None" return, "raise" re-raises the exception, "next" goes on with the
\* loop (and returns None after the last iteration)
GetProfileStep(accounts, i, got_loader, outcome) ==
    IF got_loader /\ outcome = "ok" THEN "profile"
    ELSE IF got_loader /\ outcome = "NotFound" THEN "None"
    ELSE IF i = Len(accounts) - 1 THEN "raise"
    ELSE IF i + 1 < WrapperAttempts(accounts) THEN "next"
    ELSE "None"

\* get_profile: the loaders left by an iteration; TooManyRequestsException,
\* raised by the fetch or by the login of _get_loader, drops the loader of
\* the account used
LoadersAfter(lds, username, got_loader, outcome) ==
    IF outcome = "RateLimited" THEN lds \ {username} ELSE lds

(***************************************************************************)
(* instagram_api_server.py: get_instagram_metrics.                         *)
(***************************************************************************)
\* refresh_data after the age check of latest_metrics (time_diff in hours)
ServerRefreshData(latest, t) ==
    IF latest = <<>> THEN TRUE
    ELSE (t - Strptime(latest[1].collection_date)) > SERVER_REFRESH_HOURS * 3600

\* the 500 response of the except clause
ServerError ==
    Response(HTTP_SERVER_ERROR, TRUE, "str(e)", NoValue, NoValue, NoValue,
             NoValue, FALSE, NoValue)

\* the 404 response
ProfileNotFound ==
    Response(HTTP_NOT_FOUND, TRUE, "Profile not found", NoValue, NoValue,
             NoValue, NoValue, FALSE, NoValue)

\* the formatted response
ServerMetrics(followers_count, posts_count, recent_posts_count, last_updated) ==
    Response(HTTP_OK, FALSE, "", followers_count, posts_count,
             recent_posts_count, last_updated, FALSE, NoValue)

\* the response once get_profile_stats has returned stats with exists False
ServerNoProfile(latest) ==
    IF latest = <<>> THEN ProfileNotFound
    ELSE ServerMetrics(latest[1].followers_count, latest[1].posts_count,
                       latest[1].recent_posts_count, latest[1].collection_date)

\* get_instagram_metrics up to the loop of InstaWrapper.get_profile: the read
\* of the store and the age check
ServerGetMetrics ==
    /\ program = "instagram_api_server"
    /\ pc = "idle"
    /\ requests < MaxRequests
    /\ requests' = requests + 1
    /\ \E username \in Subjects :
       \E latest \in LatestMetrics(store, username) :
         /\ subject' = username
         /\ latest_metrics' = latest
         /\ attempt' = NoAttempt
         /\ tries' = 0
         /\ fetch_calls' = 0
         /\ store_at_start' = store
         /\ retry_count' = 0
         /\ IF latest # <<>> /\ StrptimeFails(latest[1].collection_date)
            THEN /\ pc' = "done"
                 /\ result' = ServerError
                 /\ max_retries' = 0
            ELSE IF ServerRefreshData(latest, now)
            THEN /\ pc' = "get_profile"
                 /\ result' = NoResult
                 /\ max_retries' = WrapperAttempts(credentials)
            ELSE /\ pc' = "done"
                 /\ result' = ServerMetrics(latest[1].followers_count,
                                            latest[1].posts_count,
                                            latest[1].recent_posts_count,
                                            latest[1].collection_date)
                 /\ max_retries' = 0
    /\ UNCHANGED << program, scale, historical_data, drawn, metrics_call, handlers, construction, credentials_input, threadVars, now, store, credentials, apiVars, wrapperVars, rotation >>

\* one iteration of the loop of InstaWrapper.get_profile; when it returns,
\* raises or is the last one, the rest of get_profile_stats and of
\* get_instagram_metrics with it.  When the login fails, outcome is the
\* exception it raised.
GetProfileAttempt ==
    /\ program = "instagram_api_server"
    /\ pc = "get_profile"
    /\ retry_count < max_retries
    /\ \E pick \in 1..Len(credentials), login_ok \in BOOLEAN,
          outcome \in FetchOutcomes, followers \in Followers, posts \in Posts,
          insert_ok \in BOOLEAN :
         LET na == GetNextAccount(selection_method, credentials, current_index, pick)
             gl == WrapperGetLoader(loaders, login_timestamps, na.account, now, login_ok)
             step == GetProfileStep(credentials, retry_count, gl.ok, outcome)
             entry == [ credential |-> na.account, session |-> gl.session,
                        session_age |-> IF gl.session = "memo"
                                        THEN now - login_timestamps[na.account]
                                        ELSE 0,
                        artifact_age |-> NoValue,
                        restore |-> "none",
                        login |-> IF gl.session = "memo" THEN "none"
                                  ELSE IF gl.ok THEN "ok" ELSE "failed",
                        outcome |-> IF gl.ok THEN outcome ELSE "none",
                        followers |-> IF step = "profile" THEN followers ELSE NoValue,
                        posts |-> IF step = "profile" THEN posts ELSE NoValue,
                        stored |-> step = "profile" /\ insert_ok,
                        previous |-> attempt.credential,
                        previous_outcome |-> attempt.outcome ]
         IN  \* an input that is not consulted is not varied
             /\ selection_method # "random" => pick = 1
             /\ ~login_ok => ~gl.ok
             /\ ~gl.ok => outcome \in {"RateLimited", "ConnError"}
             /\ step # "profile" => (insert_ok /\ \A f \in Followers : followers <= f)
             /\ current_index' = na.current_index
             /\ drawn' = LastDrawn(drawn, na.position, credentials)
             /\ loaders' = LoadersAfter(gl.loaders, na.account, gl.ok, outcome)
             /\ login_timestamps' = gl.login_timestamps
             /\ attempt' = entry
             /\ tries' = tries + 1
             /\ fetch_calls' = IF gl.ok THEN fetch_calls + 1 ELSE fetch_calls
             /\ retry_count' = retry_count + 1
             /\ IF step = "next"
                THEN /\ pc' = "get_profile"
                     /\ UNCHANGED << store, result >>
                ELSE IF step = "raise"
                THEN /\ pc' = "done"
                     /\ result' = ServerError
                     /\ UNCHANGED store
                ELSE IF step = "None"
                THEN /\ pc' = "done"
                     /\ result' = ServerNoProfile(latest_metrics)
                     /\ UNCHANGED store
                ELSE IF insert_ok
                THEN /\ pc' = "done"
                     /\ store' = StoreMetrics(store, subject, followers, posts, 0,
                                              Strftime(now))
                     /\ result' = ServerMetrics(followers, posts, 0, Strftime(now))
                ELSE /\ pc' = "done"
                     /\ result' = ServerError
                     /\ UNCHANGED store
    /\ UNCHANGED << program, scale, historical_data, metrics_call, handlers, construction, credentials_input, threadVars, now, credentials, apiVars, subject, latest_metrics,
                    max_retries, store_at_start, selection_method, rotation,
                    requests >>

(***************************************************************************)
(* InstagramDatabase driven directly.                                      *)
(***************************************************************************)
\* store_metrics(username, ..., timestamp): given says whether the caller
\* passes a timestamp; without one the current time is formatted.  The
\* caller stores a different followers count with each call.
DbStoreMetrics ==
    /\ program = "instagram_db"
    /\ pc = "idle"
    /\ Len(store) < MaxRows
    /\ \E username \in DbUsernames, given \in BOOLEAN, timestamp \in DbTimestamps,
          posts \in Posts :
         \* an input that is not consulted is not varied
         /\ ~given => \A ts \in DbTimestamps : timestamp <= ts
         /\ store' = StoreMetrics(store, username, 1000 + Len(store), posts, 0,
                                  IF given THEN timestamp ELSE Strftime(now))
    /\ requests' = requests + 1
    /\ UNCHANGED << program, scale, historical_data, drawn, metrics_call, handlers, construction, credentials_input, threadVars, now, credentials, apiVars,
                    requestVars, wrapperVars, rotation >>

\* get_latest_metrics(username)
DbGetLatestMetrics ==
    /\ program = "instagram_db"
    /\ pc = "idle"
    /\ \E username \in DbUsernames :
       \E latest \in LatestMetrics(store, username) :
         /\ subject' = username
         /\ latest_metrics' = latest
    /\ pc' = "done"
    /\ UNCHANGED << program, scale, historical_data, drawn, metrics_call, handlers, construction, credentials_input, threadVars, now, store, credentials, apiVars,
                    retry_count, max_retries, result, attempt, tries,
                    fetch_calls, store_at_start, wrapperVars, rotation,
                    requests >>

\* get_historical_data(username, limit)
DbGetHistoricalData ==
    /\ program = "instagram_db"
    /\ pc = "idle"
    /\ \E username \in DbUsernames, limit \in 0..MaxLimit :
       \E rows \in HistoricalData(store, username, limit) :
         /\ subject' = username
         /\ historical_data' = [ called |-> TRUE, limit |-> limit, rows |-> rows ]
    /\ pc' = "done"
    /\ UNCHANGED << program, scale, drawn, metrics_call, handlers, construction, credentials_input, threadVars, now, store, credentials, apiVars,
                    latest_metrics, retry_count, max_retries, result, attempt, tries,
                    fetch_calls, store_at_start, wrapperVars, rotation,
                    requests >>

(***************************************************************************)
(* CredentialManager driven directly.                                      *)
(***************************************************************************)
\* CredentialManager(credentials_file)
Construct ==
    /\ program \in {"credential_manager", "credential_manager_threads"}
    /\ ~credential_manager_ready
    /\ \E pick \in Picks(credentials, NoCred, 0, now, TRUE) :
         /\ current_credential' = NewCredentialManager(credentials, now, pick).current_credential
         /\ last_rotation_time' = NewCredentialManager(credentials, now, pick).last_rotation_time
    /\ credential_manager_ready' = TRUE
    /\ UNCHANGED << program, scale, historical_data, drawn, metrics_call, handlers, construction, credentials_input, threadVars, now, store, credentials, loader,
                    loader_session_username, loader_created, session_files,
                    requestVars, wrapperVars, rotation, requests >>

\* a call of _rotate_credential(force)
Rotate ==
    /\ program = "credential_manager"
    /\ credential_manager_ready
    /\ \E force \in BOOLEAN :
       \E pick \in Picks(credentials, current_credential, last_rotation_time, now, force) :
         LET r == RotateCredential(credentials, current_credential,
                                   last_rotation_time, now, force, pick)
         IN  /\ current_credential' = r.current_credential
             /\ last_rotation_time' = r.last_rotation_time
             /\ rotation' = [ called |-> TRUE, force |-> force, ret |-> r.ret,
                              before |-> current_credential,
                              before_time |-> last_rotation_time, at |-> now ]
    /\ UNCHANGED << program, scale, historical_data, drawn, metrics_call, handlers, construction, credentials_input, threadVars, now, store, credentials, credential_manager_ready,
                    loader, loader_session_username, loader_created,
                    session_files, requestVars, wrapperVars, requests >>

(***************************************************************************)
(* CredentialManager shared by threads.  A thread runs _rotate_credential  *)
(* (force) or get_current_credentials, which calls _rotate_credential()    *)
(* and then reads self.current_credential.username and                     *)
(* self.current_credential.password.  Statements inside `with self.lock`   *)
(* run with the lock held; the two reads of get_current_credentials run    *)
(* without it.                                                             *)
(***************************************************************************)
\* faulty variant of LockFree: the lock does not exclude
LockIgnored(l) == TRUE

\* Lock.acquire: the lock can be taken
LockFree(l) == l = 0

\* where a thread goes once _rotate_credential has returned ret
AfterRotate(op, ret) ==
    IF op = "get_current_credentials" /\ ret # "IndexError"
    THEN "username"
    ELSE "done"

\* a request thread calls into the manager
ThreadCall ==
    /\ program = "credential_manager_threads"
    /\ credential_manager_ready
    /\ \E t \in Threads, op \in {"_rotate_credential", "get_current_credentials"},
          force \in BOOLEAN :
         /\ threads[t].pc = "idle"
         /\ op = "get_current_credentials" => ~force
         /\ threads' = [threads EXCEPT ![t] =
                            [IdleThread EXCEPT !.pc = "lock", !.op = op, !.force = force]]
    /\ UNCHANGED << program, scale, historical_data, drawn, metrics_call, handlers, construction, credentials_input, now, store, credentials, apiVars, requestVars,
                    wrapperVars, rotation, requests, lock >>

\* _rotate_credential: with self.lock, current_time = time.time(), and the
\* interval check; return False releases the lock at once
ThreadEnter ==
    /\ program = "credential_manager_threads"
    /\ \E t \in Threads :
         /\ threads[t].pc = "lock"
         /\ LockFree(lock)
         /\ IF RotationDue(last_rotation_time, now, threads[t].force)
            THEN /\ lock' = t
                 /\ threads' = [threads EXCEPT ![t].pc = "select",
                                               ![t].current_time = now,
                                               ![t].found_time = last_rotation_time]
            ELSE /\ lock' = 0
                 /\ threads' = [threads EXCEPT
                                   ![t].pc = AfterRotate(threads[t].op, "False"),
                                   ![t].current_time = now,
                                   ![t].found_time = last_rotation_time,
                                   ![t].ret = "False"]
    /\ UNCHANGED << program, scale, historical_data, drawn, metrics_call, handlers, construction, credentials_input, now, store, credentials, apiVars, requestVars,
                    wrapperVars, rotation, requests >>

\* _rotate_credential past the interval check: available_credentials,
\* random.choice, last_rotation_time = current_time, return True; leaving
\* the with block releases the lock, by return or by exception
ThreadSelect ==
    /\ program = "credential_manager_threads"
    /\ \E t \in Threads :
       \E pick \in Picks(credentials, current_credential, last_rotation_time,
                         threads[t].current_time, TRUE) :
         LET r == RotateCredential(credentials, current_credential,
                                   last_rotation_time, threads[t].current_time,
                                   TRUE, pick)
         IN  /\ threads[t].pc = "select"
             /\ current_credential' = r.current_credential
             /\ last_rotation_time' = r.last_rotation_time
             /\ lock' = IF lock = t THEN 0 ELSE lock
             /\ rotation' = [ called |-> TRUE, force |-> threads[t].force,
                              ret |-> r.ret, before |-> current_credential,
                              before_time |-> last_rotation_time,
                              at |-> threads[t].current_time ]
             /\ threads' = [threads EXCEPT
                               ![t].pc = AfterRotate(threads[t].op, r.ret),
                               ![t].ret = r.ret,
                               ![t].selected = IF r.ret = "True"
                                               THEN r.current_credential
                                               ELSE NoCred]
    /\ UNCHANGED << program, scale, historical_data, drawn, metrics_call, handlers, construction, credentials_input, now, store, credentials, credential_manager_ready,
                    loader, loader_session_username, loader_created,
                    session_files, requestVars, wrapperVars, requests >>

\* get_current_credentials: self.current_credential.username
ThreadReadUsername ==
    /\ program = "credential_manager_threads"
    /\ \E t \in Threads :
         /\ threads[t].pc = "username"
         /\ threads' = [threads EXCEPT ![t].pc = "password",
                                       ![t].username = current_credential]
    /\ UNCHANGED << program, scale, historical_data, drawn, metrics_call, handlers, construction, credentials_input, now, store, credentials, apiVars, requestVars,
                    wrapperVars, rotation, requests, lock >>

\* get_current_credentials: self.current_credential.password, and return
ThreadReadPassword ==
    /\ program = "credential_manager_threads"
    /\ \E t \in Threads :
         /\ threads[t].pc = "password"
         /\ threads' = [threads EXCEPT ![t].pc = "done",
                                       ![t].password = current_credential]
    /\ UNCHANGED << program, scale, historical_data, drawn, metrics_call, handlers, construction, credentials_input, now, store, credentials, apiVars, requestVars,
                    wrapperVars, rotation, requests, lock >>

\* the caller has taken what the call returned
ThreadReturn ==
    /\ program = "credential_manager_threads"
    /\ \E t \in Threads :
         /\ threads[t].pc = "done"
         /\ threads' = [threads EXCEPT ![t] = IdleThread]
    /\ UNCHANGED << program, scale, historical_data, drawn, metrics_call, handlers, construction, credentials_input, now, store, credentials, apiVars, requestVars,
                    wrapperVars, rotation, requests, lock >>

(***************************************************************************)
(* instagram_api.py serving requests on concurrent threads (app.run is     *)
(* threaded).  The threads share the table, the credential manager, the    *)
(* globals of get_loader and the session directory; a thread is            *)
(* interleaved with the others between its read of the table, each         *)
(* get_loader call, each fetch and its insert.  get_loader is taken as one *)
(* step: whatever the interleaving inside it, the caller gets a loader or  *)
(* None, and both are outcomes of the step.                                *)
(***************************************************************************)
\* get_latest_data up to the loop of refresh_metrics_data
HandlerGetLatestData ==
    /\ program = "instagram_api_threads"
    /\ requests' = requests + 1
    /\ \E h \in Threads, pick \in 1..MaxCreds :
       \E latest \in LatestMetrics(store, subject) :
         /\ handlers[h].pc = "idle"
         /\ pick \in Picks(credentials, NoCred, 0, now, TRUE)
         /\ IF NeedsRefresh(latest, now)
            THEN /\ handlers' = [handlers EXCEPT ![h] =
                                    [IdleHandler EXCEPT
                                        !.pc = "get_loader",
                                        !.latest_metrics = latest,
                                        !.max_retries = MaxRetries(credentials)]]
                 /\ credential_manager_ready' = TRUE
                 /\ current_credential' = CredentialManagerState(now, pick).current_credential
                 /\ last_rotation_time' = CredentialManagerState(now, pick).last_rotation_time
            ELSE /\ handlers' = [handlers EXCEPT ![h] =
                                    [IdleHandler EXCEPT
                                        !.pc = "done",
                                        !.latest_metrics = latest,
                                        !.result = Cached(latest[1], FALSE)]]
                 /\ UNCHANGED << credential_manager_ready, current_credential,
                                 last_rotation_time >>
    /\ UNCHANGED << program, scale, historical_data, drawn, metrics_call, credentials_input, construction, threadVars, now, store,
                    credentials, loader, loader_session_username, loader_created,
                    session_files, requestVars, wrapperVars, rotation >>

\* refresh_metrics_data: get_loader(force_new=(retry_count > 0)), and the
\* return of "Authentication failed" when it gives None
HandlerGetLoader ==
    /\ program = "instagram_api_threads"
    /\ \E h \in Threads, pick \in 1..MaxCreds, load_ok \in BOOLEAN, login_ok \in BOOLEAN :
         LET me == handlers[h]
             rot == RotateCredential(credentials, current_credential,
                                     last_rotation_time, now, FALSE, pick)
             gl == GetLoader(rot, me.retry_count > 0, load_ok, login_ok, now)
         IN  /\ me.pc = "get_loader"
             /\ pick \in Picks(credentials, current_credential,
                               last_rotation_time, now, FALSE)
             \* an input that is not consulted is not varied
             /\ ~load_ok => gl # GetLoader(rot, me.retry_count > 0, TRUE, login_ok, now)
             /\ ~login_ok => gl # GetLoader(rot, me.retry_count > 0, load_ok, TRUE, now)
             /\ current_credential' = gl.current_credential
             /\ last_rotation_time' = gl.last_rotation_time
             /\ loader' = gl.loader
             /\ loader_session_username' = gl.loader_session_username
             /\ loader_created' = gl.loader_created
             /\ session_files' = gl.session_files
             /\ handlers' = [handlers EXCEPT ![h] =
                    IF gl.ret = NoLoader
                    THEN [me EXCEPT !.pc = "done",
                                    !.result = AfterRefresh(me.latest_metrics,
                                                            AuthenticationFailed, FALSE)]
                    ELSE [me EXCEPT !.pc = "fetch"]]
    /\ UNCHANGED << program, scale, historical_data, drawn, metrics_call, credentials_input, construction, threadVars, now, store,
                    credentials, credential_manager_ready, requestVars, wrapperVars,
                    rotation, requests >>

\* refresh_metrics_data: get_instagram_metrics up to its insert; without
\* metrics retry_count += 1 and the loop goes on or ends
HandlerFetch ==
    /\ program = "instagram_api_threads"
    /\ \E h \in Threads, outcome \in FetchOutcomes, followers \in Followers,
          posts \in Posts :
         LET me == handlers[h]
             metrics == GetInstagramMetrics(outcome, followers, posts)
         IN  /\ me.pc = "fetch"
             /\ handlers' = [handlers EXCEPT ![h] =
                    IF metrics # <<>>
                    THEN [me EXCEPT !.pc = "store", !.outcome = outcome,
                                    !.metrics = metrics]
                    ELSE IF me.retry_count + 1 < me.max_retries
                    THEN [me EXCEPT !.pc = "get_loader", !.outcome = outcome,
                                    !.retry_count = me.retry_count + 1]
                    ELSE [me EXCEPT !.pc = "done", !.outcome = outcome,
                                    !.retry_count = me.retry_count + 1,
                                    !.result = AfterRefresh(me.latest_metrics,
                                                   AllAttemptsFailed(me.max_retries),
                                                   FALSE)]]
    /\ UNCHANGED << program, scale, historical_data, drawn, metrics_call, credentials_input, construction, threadVars, now, store,
                    credentials, apiVars, requestVars, wrapperVars, rotation, requests >>

\* get_instagram_metrics: store_metrics_in_db, then the success result of
\* refresh_metrics_data, which get_latest_data returns
HandlerStore ==
    /\ program = "instagram_api_threads"
    /\ \E h \in Threads, insert_ok \in BOOLEAN :
         LET me == handlers[h]
         IN  /\ me.pc = "store"
             /\ store' = StoreMetricsInDb(store, subject, me.metrics[1], now, insert_ok)
             /\ handlers' = [handlers EXCEPT ![h] =
                    [me EXCEPT !.pc = "done",
                               !.db_record_id = IF insert_ok THEN Len(store) + 1
                                                ELSE NoValue,
                               !.result = AfterRefresh(me.latest_metrics,
                                              Refreshed(me.metrics[1], now), TRUE)]]
    /\ UNCHANGED << program, scale, historical_data, drawn, metrics_call, credentials_input, construction, threadVars, now,
                    credentials, apiVars, requestVars, wrapperVars, rotation, requests >>

(***************************************************************************)
(* instagram_api.py: get_loader called from concurrent request threads,    *)
(* statement by statement.  _loader and _loader_session_username are       *)
(* module globals without a lock: a thread is interleaved with the others  *)
(* after its memo check, after `_loader = instaloader.Instaloader()`, after *)
(* `_loader_session_username = username` and before each `return _loader`, *)
(* which reads the global again.  The global _loader is a reference: the   *)
(* thread that created the object and the state of the object are kept     *)
(* with its creator.                                                       *)
(***************************************************************************)
\* the reference to the Instaloader that thread h created for username
LoaderOf(h, username) == [ username |-> username, owner |-> h ]

\* whether the object behind reference l has completed authentication
Authenticated(l) ==
    /\ l # NoLoader
    /\ handlers[l.owner].object = "authenticated"

\* get_loader(force_new) up to the memo check: init_credential_manager,
\* get_current_credentials (the IndexError handler resets the globals and
\* returns None), and the test of _loader and _loader_session_username
CallerEnter ==
    /\ program = "get_loader_threads"
    /\ requests < MaxRequests
    /\ requests' = requests + 1
    /\ \E h \in Threads, force_new \in BOOLEAN, first \in 1..MaxCreds, pick \in 1..MaxCreds :
         LET me == handlers[h]
             cm == CredentialManagerState(now, first)
             rot == RotateCredential(credentials, cm.current_credential,
                                     cm.last_rotation_time, now, FALSE, pick)
             username == rot.current_credential
         IN  /\ me.pc \in {"idle", "done"}
             /\ first \in IF credential_manager_ready THEN {1}
                          ELSE Picks(credentials, NoCred, 0, now, TRUE)
             /\ pick \in Picks(credentials, cm.current_credential,
                               cm.last_rotation_time, now, FALSE)
             /\ credential_manager_ready' = TRUE
             /\ current_credential' = rot.current_credential
             /\ last_rotation_time' = rot.last_rotation_time
             /\ IF rot.ret = "IndexError"
                THEN /\ loader' = NoLoader
                     /\ loader_session_username' = NoCred
                     /\ handlers' = [handlers EXCEPT ![h] =
                            [me EXCEPT !.pc = "done", !.force_new = force_new,
                                       !.username = NoCred, !.ret = NoLoader,
                                       !.ret_authenticated = FALSE]]
                ELSE /\ UNCHANGED << loader, loader_session_username >>
                     /\ handlers' = [handlers EXCEPT ![h] =
                            [me EXCEPT !.pc = IF /\ ~force_new
                                                 /\ loader # NoLoader
                                                 /\ loader_session_username = username
                                              THEN "return" ELSE "create",
                                       !.force_new = force_new,
                                       !.username = username, !.ret = NoLoader,
                                       !.ret_authenticated = FALSE]]
    /\ UNCHANGED << program, scale, historical_data, drawn, metrics_call, credentials_input, construction, threadVars, now, store,
                    credentials, loader_created, session_files, requestVars,
                    wrapperVars, rotation >>

\* _loader = instaloader.Instaloader()
CallerCreate ==
    /\ program = "get_loader_threads"
    /\ \E h \in Threads :
         LET me == handlers[h]
         IN  /\ me.pc = "create"
             /\ loader' = LoaderOf(h, me.username)
             /\ loader_created' = now
             /\ handlers' = [handlers EXCEPT ![h] =
                    [me EXCEPT !.pc = "name", !.object = "created"]]
    /\ UNCHANGED << program, scale, historical_data, drawn, metrics_call, credentials_input, construction, threadVars, now, store,
                    credentials, credential_manager_ready, current_credential,
                    last_rotation_time, loader_session_username, session_files,
                    requestVars, wrapperVars, rotation, requests >>

\* _loader_session_username = username
CallerName ==
    /\ program = "get_loader_threads"
    /\ \E h \in Threads :
         LET me == handlers[h]
         IN  /\ me.pc = "name"
             /\ loader_session_username' = me.username
             /\ handlers' = [handlers EXCEPT ![h] = [me EXCEPT !.pc = "authenticate"]]
    /\ UNCHANGED << program, scale, historical_data, drawn, metrics_call, credentials_input, construction, threadVars, now, store,
                    credentials, credential_manager_ready, current_credential,
                    last_rotation_time, loader, loader_created, session_files,
                    requestVars, wrapperVars, rotation, requests >>

\* is_session_valid and _loader.load_session_from_file, else _loader.login
\* and _loader.save_session_to_file, on the object the global refers to at
\* that moment (None: AttributeError, handled like a failed login); on
\* failure the handler resets the globals and returns None
CallerAuthenticate ==
    /\ program = "get_loader_threads"
    /\ \E h \in Threads, load_ok \in BOOLEAN, login_ok \in BOOLEAN :
         LET me == handlers[h]
             valid == IsSessionValid(session_files, me.username, now)
             restored == loader # NoLoader /\ valid /\ load_ok
             logged_in == loader # NoLoader /\ ~restored /\ login_ok
         IN  /\ me.pc = "authenticate"
             \* an input that is not consulted is not varied
             /\ ~load_ok => (loader # NoLoader /\ valid)
             /\ ~login_ok => (loader # NoLoader /\ ~restored)
             /\ IF restored \/ logged_in
                THEN /\ handlers' =
                          [g \in Threads |->
                              LET obj == IF g = loader.owner
                                         THEN [handlers[g] EXCEPT !.object = "authenticated"]
                                         ELSE handlers[g]
                              IN  IF g = h THEN [obj EXCEPT !.pc = "return"] ELSE obj]
                     /\ session_files' = IF logged_in
                                          THEN [session_files EXCEPT ![me.username] = now]
                                          ELSE session_files
                     /\ UNCHANGED << loader, loader_session_username >>
                ELSE /\ loader' = NoLoader
                     /\ loader_session_username' = NoCred
                     /\ handlers' = [handlers EXCEPT ![h] =
                            [me EXCEPT !.pc = "done", !.ret = NoLoader,
                                       !.ret_authenticated = FALSE]]
                     /\ UNCHANGED session_files
    /\ UNCHANGED << program, scale, historical_data, drawn, metrics_call, credentials_input, construction, threadVars, now, store,
                    credentials, credential_manager_ready, current_credential,
                    last_rotation_time, loader_created, requestVars, wrapperVars,
                    rotation, requests >>

\* return _loader: the global is read when the call returns
CallerReturn ==
    /\ program = "get_loader_threads"
    /\ \E h \in Threads :
         LET me == handlers[h]
         IN  /\ me.pc = "return"
             /\ handlers' = [handlers EXCEPT ![h] =
                    [me EXCEPT !.pc = "done", !.ret = loader,
                               !.ret_authenticated = Authenticated(loader)]]
    /\ UNCHANGED << program, scale, historical_data, drawn, metrics_call, credentials_input, construction, threadVars, now, store,
                    credentials, apiVars, requestVars, wrapperVars, rotation, requests >>

(***************************************************************************)
(* get_followers.py: get_instagram_metrics called directly.                *)
(***************************************************************************)
\* get_instagram_metrics(username, store_in_db, retries, login_username,
\* login_password, loader) up to its loop: setup_loader when no loader is
\* passed; (None, None) when setup_loader gives None or the loop has no
\* iteration
GetInstagramMetricsCall ==
    /\ program = "get_followers"
    /\ pc = "idle"
    /\ requests < MaxRequests
    /\ requests' = requests + 1
    /\ \E store_in_db \in BOOLEAN, retries \in 0..MaxRetriesArg,
          login_username \in {NoCred, 1}, login_password \in BOOLEAN,
          given \in BOOLEAN, load_ok \in BOOLEAN, login_ok \in BOOLEAN :
         LET sl == SetupLoader(session_files, login_username, login_password,
                               load_ok, login_ok, now)
             call == [ NoMetricsCall EXCEPT !.store_in_db = store_in_db,
                                            !.login_username = login_username,
                                            !.login_password = login_password,
                                            !.loader = given ]
             ends == (~given /\ sl.ret = "None") \/ retries = 0
         IN  \* an input that is not consulted is not varied
             /\ given => (login_username = NoCred /\ ~login_password /\ load_ok /\ login_ok)
             /\ login_username = NoCred => ~login_password
             /\ ~load_ok => sl # SetupLoader(session_files, login_username,
                                             login_password, TRUE, login_ok, now)
             /\ ~login_ok => sl # SetupLoader(session_files, login_username,
                                              login_password, load_ok, TRUE, now)
             /\ session_files' = IF given THEN session_files ELSE sl.session_files
             /\ loader_created' = IF given \/ sl.ret = "None" THEN loader_created
                                  ELSE now
             /\ attempt' = [ NoAttempt EXCEPT
                               !.credential = login_username,
                               !.session = IF given THEN "given" ELSE sl.ret,
                               !.artifact_age =
                                   IF given \/ login_username = NoCred
                                      \/ session_files[login_username] = NoValue
                                   THEN NoValue
                                   ELSE now - session_files[login_username],
                               !.restore = IF given THEN "none" ELSE sl.restore,
                               !.login = IF given THEN "none" ELSE sl.login ]
             /\ max_retries' = retries
             /\ metrics_call' = [ call EXCEPT !.returned = ends ]
             /\ pc' = IF ends THEN "done" ELSE "fetch"
    /\ subject' = "x"
    /\ latest_metrics' = <<>>
    /\ retry_count' = 0
    /\ tries' = 0
    /\ fetch_calls' = 0
    /\ store_at_start' = store
    /\ result' = NoResult
    /\ UNCHANGED << program, scale, historical_data, drawn, handlers, construction, credentials_input, threadVars,
                    now, store, credentials, credential_manager_ready,
                    current_credential, last_rotation_time, loader,
                    loader_session_username, wrapperVars, rotation >>

\* one iteration of the loop of get_instagram_metrics; when it is the last
\* one, the rest of the function with it: store_metrics_in_db when
\* store_in_db is set, and the return
GetInstagramMetricsAttempt ==
    /\ program = "get_followers"
    /\ pc = "fetch"
    /\ retry_count < max_retries
    /\ \E outcome \in MetricsOutcomes, followers \in Followers, posts \in Posts,
          insert_ok \in BOOLEAN :
         LET step == MetricsStep(outcome, retry_count, max_retries)
             metrics == [ followers |-> followers, posts |-> posts ]
             stores == step = "break" /\ metrics_call.store_in_db
         IN  \* an input that is not consulted is not varied
             /\ ~stores => insert_ok
             /\ attempt' = [ attempt EXCEPT
                               !.outcome = outcome,
                               !.followers = IF outcome = "ok" THEN followers ELSE NoValue,
                               !.posts = IF outcome = "ok" THEN posts ELSE NoValue,
                               !.stored = stores /\ insert_ok,
                               !.previous_outcome = attempt.outcome ]
             /\ tries' = tries + 1
             /\ fetch_calls' = fetch_calls + 1
             /\ IF step = "retry"
                THEN /\ retry_count' = retry_count + 1
                     /\ pc' = "fetch"
                     /\ UNCHANGED << store, metrics_call >>
                ELSE /\ pc' = "done"
                     /\ UNCHANGED retry_count
                     /\ store' = IF stores
                                 THEN StoreMetricsInDb(store, subject, metrics, now, insert_ok)
                                 ELSE store
                     /\ metrics_call' =
                            [ metrics_call EXCEPT
                                !.returned = TRUE,
                                !.metrics = IF step = "break" THEN << metrics >> ELSE <<>>,
                                !.db_record_id = IF stores /\ insert_ok
                                                 THEN Len(store) + 1 ELSE NoValue ]
    /\ UNCHANGED << program, scale, historical_data, drawn, handlers, construction, credentials_input, threadVars,
                    now, credentials, apiVars, subject, latest_metrics, max_retries,
                    result, store_at_start, wrapperVars, rotation, requests >>

(***************************************************************************)
(* The pools built from their input.                                       *)
(***************************************************************************)
\* init_credential_manager() while _credential_manager is None:
\* CredentialManager(CREDENTIALS_FILE), that is _load_credentials and then
\* _rotate_credential(force=True); an exception leaves the global None
LoadCredentialManager ==
    /\ program = "credential_loading"
    /\ credentials_input.kind = "csv_file"
    /\ credentials = <<>>
    /\ ~credential_manager_ready
    /\ requests < MaxRequests
    /\ requests' = requests + 1
    /\ LET loaded == LoadCredentials(credentials_input)
       IN  \E pick \in Picks(loaded.credentials, NoCred, 0, now, TRUE) :
             LET r == NewCredentialManager(loaded.credentials, now, pick)
                 raised == IF loaded.raised # "none" THEN loaded.raised
                           ELSE IF r.ret = "IndexError" THEN "IndexError"
                           ELSE "built"
             IN  /\ construction' = [construction EXCEPT !.manager = raised]
                 /\ IF raised # "built"
                    THEN UNCHANGED << credentials, credential_manager_ready,
                                      current_credential, last_rotation_time >>
                    ELSE /\ credentials' = loaded.credentials
                         /\ credential_manager_ready' = TRUE
                         /\ current_credential' = r.current_credential
                         /\ last_rotation_time' = r.last_rotation_time
    /\ UNCHANGED << program, scale, historical_data, drawn, metrics_call, handlers, credentials_input, threadVars, now, store, loader,
                    loader_session_username, loader_created, session_files,
                    requestVars, wrapperVars, rotation >>

\* insta_api = InstaWrapper(csv_file=CREDENTIALS_FILE), or
\* InstaWrapper(accounts=...)
LoadInstaWrapper ==
    /\ program = "credential_loading"
    /\ credentials = <<>>
    /\ requests < MaxRequests
    /\ requests' = requests + 1
    /\ LET w == NewInstaWrapper(credentials_input)
       IN  /\ construction' = [construction EXCEPT !.wrapper =
                                   IF w.raised = "none" THEN "built" ELSE w.raised]
           /\ credentials' = w.accounts
    /\ UNCHANGED << program, scale, historical_data, drawn, metrics_call, handlers, credentials_input, threadVars, now, store, apiVars,
                    requestVars, wrapperVars, rotation >>

Next ==
    \/ Tick
    \/ Return
    \/ GetLatestData
    \/ RefreshAttempt
    \/ ServerGetMetrics
    \/ GetProfileAttempt
    \/ DbStoreMetrics
    \/ DbGetLatestMetrics
    \/ Construct
    \/ Rotate
    \/ ThreadCall
    \/ ThreadEnter
    \/ ThreadSelect
    \/ ThreadReadUsername
    \/ ThreadReadPassword
    \/ ThreadReturn
    \/ LoadCredentialManager
    \/ LoadInstaWrapper
    \/ HandlerGetLatestData
    \/ HandlerGetLoader
    \/ HandlerFetch
    \/ HandlerStore
    \/ GetInstagramMetricsCall
    \/ GetInstagramMetricsAttempt
    \/ CallerEnter
    \/ CallerCreate
    \/ CallerName
    \/ CallerAuthenticate
    \/ CallerReturn
    \/ DbGetHistoricalData

\* every program
Spec == Init /\ [][Next]_vars

\* instagram_api.py and instagram_api_server.py, on a new table
InitServices ==
    /\ Init
    /\ program \in {"instagram_api", "instagram_api_server"}
    /\ scale \in {1, ServerScale}
    /\ program = "instagram_api_server" => credentials \in DistinctPools
    /\ store = <<>>
NextServices ==
    \/ Tick
    \/ Return
    \/ GetLatestData
    \/ RefreshAttempt
    \/ ServerGetMetrics
    \/ GetProfileAttempt
SpecServices == InitServices /\ [][NextServices]_vars

\* the same watched over a day
InitSessions ==
    /\ Init
    /\ program \in {"instagram_api", "instagram_api_server"}
    /\ scale = DayScale
    /\ Len(credentials) <= MaxDayCreds
    /\ store = <<>>
SpecSessions == InitSessions /\ [][NextServices]_vars

\* the same on any table the process may find, a record another client
\* wrote included
InitImported ==
    /\ Init
    /\ program \in {"instagram_api", "instagram_api_server"}
    /\ scale \in {1, ServerScale}
SpecImported == InitImported /\ [][NextServices]_vars

\* an InstagramDatabase alone
InitDb ==
    /\ Init
    /\ program = "instagram_db"
    /\ credentials = <<1>>
    /\ store = <<>>
NextDb ==
    \/ Tick
    \/ Return
    \/ DbStoreMetrics
    \/ DbGetLatestMetrics
SpecDb == InitDb /\ [][NextDb]_vars

\* an InstagramDatabase alone, with its history read as well
NextHistory ==
    \/ Tick
    \/ Return
    \/ DbStoreMetrics
    \/ DbGetLatestMetrics
    \/ DbGetHistoricalData
SpecHistory == InitDb /\ [][NextHistory]_vars

\* every writer and reader of the table
InitStore == InitServices \/ InitDb
NextStore ==
    \/ Tick
    \/ Return
    \/ GetLatestData
    \/ RefreshAttempt
    \/ ServerGetMetrics
    \/ GetProfileAttempt
    \/ DbStoreMetrics
    \/ DbGetLatestMetrics
SpecStore == InitStore /\ [][NextStore]_vars

\* instagram_api.py alone
InitApi == Init /\ program = "instagram_api" /\ scale = 1 /\ store = <<>>
NextApi ==
    \/ Tick
    \/ Return
    \/ GetLatestData
    \/ RefreshAttempt
SpecApi == InitApi /\ [][NextApi]_vars

\* the first call of get_latest_data in a process, over an empty table or
\* one that holds a record to fall back on, when a started
\* refresh_metrics_data keeps running: the loop is straight-line code of one
\* thread, so its next iteration is always taken
InitRefreshLoop == Init /\ program = "instagram_api" /\ scale = 1
NextRefreshLoop ==
    \/ Tick
    \/ Return
    \/ GetLatestData /\ requests = 0
    \/ RefreshAttempt
SpecRefreshLoop == InitRefreshLoop /\ [][NextRefreshLoop]_vars /\ WF_vars(RefreshAttempt)

\* a CredentialManager alone
InitCredentialManager == Init /\ program = "credential_manager" /\ store = <<>>
NextCredentialManager ==
    \/ Tick
    \/ Construct
    \/ Rotate
SpecCredentialManager == InitCredentialManager /\ [][NextCredentialManager]_vars

\* the CredentialManager driven directly and through get_latest_data
InitManagers == InitApi \/ InitCredentialManager
NextManagers ==
    \/ Tick
    \/ Construct
    \/ Rotate
    \/ Return
    \/ GetLatestData
    \/ RefreshAttempt
SpecManagers == InitManagers /\ [][NextManagers]_vars

\* a CredentialManager shared by threads
InitThreads == Init /\ program = "credential_manager_threads" /\ store = <<>>
NextThreads ==
    \/ Tick
    \/ Construct
    \/ ThreadCall
    \/ ThreadEnter
    \/ ThreadSelect
    \/ ThreadReadUsername
    \/ ThreadReadPassword
    \/ ThreadReturn
SpecThreads == InitThreads /\ [][NextThreads]_vars

\* the pools built from any credentials file or accounts list
InitLoading == Init /\ program = "credential_loading" /\ store = <<>>
NextLoading ==
    \/ Tick
    \/ LoadCredentialManager
    \/ LoadInstaWrapper
SpecLoading == InitLoading /\ [][NextLoading]_vars

\* instagram_api.py serving two requests on concurrent threads
InitRequests ==
    /\ Init
    /\ program = "instagram_api_threads"
    /\ Len(credentials) <= MaxThreadCreds
NextRequests ==
    \/ Tick
    \/ HandlerGetLatestData
    \/ HandlerGetLoader
    \/ HandlerFetch
    \/ HandlerStore
SpecRequests == InitRequests /\ [][NextRequests]_vars

\* both services on a new table, instagram_api.py with the clock that can
\* move between the two reads of a refresh
InitClock ==
    /\ Init
    /\ program \in {"instagram_api_clock", "instagram_api_server"}
    /\ scale \in {1, ServerScale}
    /\ credentials \in DistinctPools
    /\ store = <<>>
NextClock ==
    \/ Tick
    \/ Return
    \/ GetLatestData
    \/ RefreshAttempt
    \/ ServerGetMetrics
    \/ GetProfileAttempt
SpecClock == InitClock /\ [][NextClock]_vars

\* get_loader called on concurrent threads
InitCallers ==
    /\ Init
    /\ program = "get_loader_threads"
    /\ store = <<>>
    /\ Len(credentials) <= MaxThreadCreds
NextCallers ==
    \/ Tick
    \/ CallerEnter
    \/ CallerCreate
    \/ CallerName
    \/ CallerAuthenticate
    \/ CallerReturn
SpecCallers == InitCallers /\ [][NextCallers]_vars

\* get_instagram_metrics called directly, with and without a loader
InitGetFollowers ==
    /\ Init
    /\ program = "get_followers"
    /\ credentials = <<1>>
    /\ store = <<>>
NextGetFollowers ==
    \/ Tick
    \/ Return
    \/ GetInstagramMetricsCall
    \/ GetInstagramMetricsAttempt
SpecGetFollowers == InitGetFollowers /\ [][NextGetFollowers]_vars

\* the two places a session is obtained, get_loader and setup_loader,
\* watched over a day
InitLoaders ==
    /\ Init
    /\ program \in {"instagram_api", "get_followers"}
    /\ scale = DayScale
    /\ Len(credentials) <= MaxDayCreds
    /\ program = "get_followers" => credentials = <<1>>
    /\ store = <<>>
NextLoaders ==
    \/ Tick
    \/ Return
    \/ GetLatestData
    \/ RefreshAttempt
    \/ GetInstagramMetricsCall
    \/ GetInstagramMetricsAttempt
SpecLoaders == InitLoaders /\ [][NextLoaders]_vars

\* instagram_api_server.py alone
InitServer ==
    /\ Init
    /\ program = "instagram_api_server"
    /\ scale = ServerScale
    /\ store = <<>>
NextServer ==
    \/ Tick
    \/ Return
    \/ ServerGetMetrics
    \/ GetProfileAttempt
SpecServer == InitServer /\ [][NextServer]_vars

(***************************************************************************)
(* Properties.                                                             *)
(***************************************************************************)
\* a refresh has ended without a successful fetch
RefreshFailed ==
    /\ pc = "done"
    /\ tries > 0
    /\ attempt.outcome # "ok"

\* a refresh has ended with a successful fetch
RefreshSucceeded ==
    /\ pc = "done"
    /\ tries > 0
    /\ attempt.outcome = "ok"

\* the result carries exactly the columns of row
Serves(row) ==
    /\ result.error = FALSE
    /\ result.followers_count = row.followers_count
    /\ result.posts_count = row.posts_count
    /\ result.recent_posts_count = row.recent_posts_count
    /\ result.last_updated = row.collection_date

\* C1: one run of the refresh loop (refresh_metrics_data, and
\* InstaWrapper.get_profile) calls Profile.from_username at most
\* min(3, number of credentials) times, whatever the collaborator answers.
C1_FetchCallsBounded ==
    fetch_calls <= Min(3, Len(credentials))

\* C1 witness: with more than three credentials a run has made three calls
C1_Witness ==
    /\ pc = "done"
    /\ Len(credentials) > 3
    /\ fetch_calls = 3

\* C2: in get_latest_data, when a record is cached and the refresh fails on
\* every attempt, the call returns exactly the cached record, marked as
\* stale (the note), and no error result.
C2_FallbackServesCachedRecord ==
    (program = "instagram_api" /\ RefreshFailed /\ latest_metrics # <<>>) =>
        /\ Serves(latest_metrics[1])
        /\ result.note
        /\ \E i \in RowsOf(store, subject) : Columns(store[i]) = latest_metrics[1]

\* C2 witness: a refresh of a cached subject has ended on a rate limit
C2_Witness ==
    /\ program = "instagram_api"
    /\ RefreshFailed
    /\ attempt.outcome = "RateLimited"
    /\ latest_metrics # <<>>
    /\ result.note

\* C3: a cached record younger than the freshness threshold is returned
\* unchanged and not marked stale, with no fetch, no authentication and no
\* append to the store.
C3_FreshRecordServedWithoutRefresh ==
    ( /\ program = "instagram_api"
      /\ pc = "done"
      /\ latest_metrics # <<>>
      /\ ~StrptimeFails(latest_metrics[1].collection_date)
      /\ now - latest_metrics[1].collection_date < CACHE_FRESHNESS_THRESHOLD ) =>
        /\ Serves(latest_metrics[1])
        /\ ~result.note
        /\ fetch_calls = 0
        /\ tries = 0
        /\ attempt.session = "none"
        /\ store = store_at_start

\* C3 witness: a request has been answered from a fresh cached record
C3_Witness ==
    /\ program = "instagram_api"
    /\ pc = "done"
    /\ latest_metrics # <<>>
    /\ now - latest_metrics[1].collection_date < CACHE_FRESHNESS_THRESHOLD
    /\ result.followers_count = 1000

\* the store has gained exactly one record, for the subject, with the counts
\* the fetch returned
GainedOneRecord ==
    /\ Len(store) = Len(store_at_start) + 1
    /\ SubSeq(store, 1, Len(store_at_start)) = store_at_start
    /\ store[Len(store)].username = subject
    /\ store[Len(store)].followers_count = attempt.followers
    /\ store[Len(store)].posts_count = attempt.posts

\* the result carries the counts the fetch returned and is not marked stale
ServesFetched ==
    /\ result.error = FALSE
    /\ ~result.note
    /\ result.followers_count = attempt.followers
    /\ result.posts_count = attempt.posts

\* C4 as stated: whenever a successfully refreshed result is returned, the
\* store has gained exactly one record with the fetched counts and the
\* result carries the same counts, not marked stale.
C4_SuccessAppendsOneRecord ==
    (program = "instagram_api" /\ RefreshSucceeded) =>
        (GainedOneRecord /\ ServesFetched)

\* C4 amended: whenever a successfully refreshed result is returned it
\* carries the fetched counts, not marked stale, and the store has gained
\* exactly one record with those counts when store_metrics_in_db stored it,
\* and is unchanged when store_metrics_in_db caught a storage error.
C4_SuccessAppendsAtMostOneRecord ==
    (program = "instagram_api" /\ RefreshSucceeded) =>
        /\ ServesFetched
        /\ attempt.stored => GainedOneRecord
        /\ ~attempt.stored => store = store_at_start

\* C4 witness: a first refresh has succeeded and the store holds one record
C4_Witness ==
    /\ program = "instagram_api"
    /\ RefreshSucceeded
    /\ attempt.stored
    /\ store_at_start = <<>>
    /\ Len(store) = 1

\* C5: with no cached record, a NotFound from the fetch makes the request
\* fail with the not-found error (404), not with the error of exhausted
\* attempts.
C5_NotFoundIsReported ==
    ( /\ program = "instagram_api"
      /\ RefreshFailed
      /\ latest_metrics = <<>>
      /\ attempt.outcome = "NotFound"
      /\ attempt.previous_outcome \in {"none", "NotFound"} ) =>
        /\ result.error
        /\ result.status = HTTP_NOT_FOUND
        /\ result # AllAttemptsFailed(max_retries)

\* C6: once the fetch reports NotFound the refresh ends: no further attempt
\* follows.
C6_NotFoundEndsRefresh ==
    program = "instagram_api" =>
        /\ attempt.outcome = "NotFound" => pc = "done"
        /\ attempt.previous_outcome # "NotFound"

\* C7: with at least two distinct credentials, every attempt after the first
\* runs with a credential other than the one of the attempt before it.
C7_AttemptsRotate ==
    ( /\ program = "instagram_api"
      /\ tries >= 2
      /\ \E i, j \in 1..Len(credentials) : credentials[i] # credentials[j] ) =>
        attempt.credential # attempt.previous

\* C8: an authentication failure is one failed attempt, after which the loop
\* goes on: a refresh that ends on one has used up its attempts.
C8_AuthFailureIsOneAttempt ==
    ( /\ program = "instagram_api"
      /\ pc = "done"
      /\ attempt.session = "failed" ) =>
        tries = max_retries

\* C9: after a fetch that failed with a rate limit or a connection error the
\* session of the credential used is invalidated: it is neither memoized
\* nor restorable from its session file.
C9_FailedSessionInvalidated ==
    ( /\ program = "instagram_api"
      /\ attempt.outcome \in {"RateLimited", "ConnError"} ) =>
        /\ loader_session_username # attempt.credential
        /\ ~IsSessionValid(session_files, attempt.credential, now)

\* C10: with at least two credentials loaded, the credential active after
\* _rotate_credential(force=True) differs from the one active before it.
C10_ForcedRotationChangesCredential ==
    ( /\ rotation.called
      /\ rotation.force
      /\ Len(credentials) >= 2 ) =>
        current_credential # rotation.before


\* C11: a non-forced _rotate_credential call rotates exactly when the time
\* since last_rotation_time is at least ROTATION_INTERVAL: it then returns
\* True and sets last_rotation_time to the current time; otherwise it
\* returns False and leaves current_credential and last_rotation_time as
\* they were.
C11_NonForcedRotationFollowsInterval ==
    (rotation.called /\ ~rotation.force) =>
        IF rotation.at - rotation.before_time >= ROTATION_INTERVAL
        THEN /\ rotation.ret = "True"
             /\ last_rotation_time = rotation.at
             /\ \E i \in 1..Len(credentials) : credentials[i] = current_credential
        ELSE /\ rotation.ret = "False"
             /\ current_credential = rotation.before
             /\ last_rotation_time = rotation.before_time

\* C12: the (username, password) pair get_current_credentials returns
\* belongs to one credential, whatever other threads do during the call.
C12_ReturnedPairIsOneCredential ==
    \A t \in Threads :
        ( /\ threads[t].op = "get_current_credentials"
          /\ threads[t].pc = "done"
          /\ threads[t].ret # "IndexError" ) =>
            threads[t].username = threads[t].password

\* two threads have both come back from a non-forced _rotate_credential
\* that read the same time, and the rotation interval had elapsed for the
\* one that went first
ConcurrentRotations(t, u) ==
    /\ t # u
    /\ threads[t].ret # "none" /\ ~threads[t].force
    /\ threads[u].ret # "none" /\ ~threads[u].force
    /\ threads[t].current_time = threads[u].current_time
    /\ threads[t].current_time - threads[t].found_time >= ROTATION_INTERVAL

\* C13: of the threads that call the non-forced rotation together once the
\* interval has elapsed, exactly one rotates and returns True; the others
\* return False and leave its credential and its timestamp in place (until
\* a forced rotation).
C13_ExactlyOneThreadRotates ==
    \A t, u \in Threads :
        ConcurrentRotations(t, u) =>
            /\ threads[t].ret = "True"
            /\ threads[u].ret = "False"
            /\ ~rotation.force =>
                   /\ current_credential = threads[t].selected
                   /\ last_rotation_time = threads[t].current_time

\* the time a session handle may be served from memory
SESSION_TTL == SESSION_MAX_AGE_HOURS * 3600

\* C14: get_loader and InstaWrapper._get_loader hand out a memoized session
\* handle only while its age since creation is below SESSION_TTL (24 hours).
C14_MemoizedSessionYoungerThanTtl ==
    attempt.session = "memo" => attempt.session_age < SESSION_TTL

\* C15 as stated: after a failed authentication the session cache holds no
\* entry for the credential: _loader and _loader_session_username are both
\* None, and InstaWrapper.loaders has no entry for the account.
C15_FailedLoginLeavesNoEntry ==
    attempt.session = "failed" =>
        /\ program = "instagram_api" =>
               (loader = NoLoader /\ loader_session_username = NoCred)
        /\ program = "instagram_api_server" => attempt.credential \notin loaders

\* C15 amended: after a failed authentication the session cache holds no
\* entry that can be served for the credential: _loader and
\* _loader_session_username are both None, and InstaWrapper.loaders has no
\* entry for the account or only the expired one (24 hours old or older)
\* that the failed login was to replace.
C15_FailedLoginIsNotServed ==
    attempt.session = "failed" =>
        /\ program = "instagram_api" =>
               (loader = NoLoader /\ loader_session_username = NoCred)
        /\ program = "instagram_api_server" =>
               \/ attempt.credential \notin loaders
               \/ now - login_timestamps[attempt.credential] >= SESSION_TTL

\* C15 witness: the login of an account whose loader had expired has failed,
\* and the expired loader is still in InstaWrapper.loaders
C15_Witness ==
    /\ program = "instagram_api_server"
    /\ attempt.session = "failed"
    /\ attempt.credential \in loaders
    /\ now - login_timestamps[attempt.credential] >= SESSION_TTL

\* the freshness threshold of each service, in seconds
Threshold(prog) ==
    IF prog = "instagram_api" THEN CACHE_FRESHNESS_THRESHOLD
    ELSE SERVER_REFRESH_HOURS * 3600

\* the request in progress has been answered without a refresh
AnsweredFromCache ==
    /\ pc = "done"
    /\ tries = 0

\* C16: a cached record is FRESH, and the request is answered without a
\* refresh, exactly when now - collected_at is strictly below the threshold
\* of the service; at an age equal to the threshold the record is STALE and
\* a refresh is attempted.
C16_FreshExactlyBelowThreshold ==
    ( /\ program \in {"instagram_api", "instagram_api_server"}
      /\ pc = "done"
      /\ latest_metrics # <<>>
      /\ ~StrptimeFails(latest_metrics[1].collection_date) ) =>
        ( AnsweredFromCache <=>
            now - Strptime(latest_metrics[1].collection_date) < Threshold(program) )

\* C17: when the collection_date of the latest record does not parse, the
\* record is treated as STALE: the request is not answered before a refresh
\* has been attempted, and not with the error of the parse.
C17_UnparsableDateIsStale ==
    ( /\ program \in {"instagram_api", "instagram_api_server"}
      /\ pc = "done"
      /\ latest_metrics # <<>>
      /\ StrptimeFails(latest_metrics[1].collection_date) ) =>
        /\ ~AnsweredFromCache
        /\ tries = 0 => result.status # HTTP_SERVER_ERROR

\* the times a record is classified at: now, and the times around the one
\* its age reaches the threshold
ProbeTimes(row) ==
    {now} \cup { row.collection_date + d :
                   d \in { 0, CACHE_FRESHNESS_THRESHOLD - 1,
                           CACHE_FRESHNESS_THRESHOLD,
                           CACHE_FRESHNESS_THRESHOLD + 1 } }

\* C18: for every stored record and all times t1 < t2, a record FRESH at t1
\* is FRESH or STALE at t2, never ABSENT, and a record STALE at t1 is STALE
\* at t2.
C18_ClassificationMonotonic ==
    \A i \in 1..Len(store) :
    \A t1, t2 \in ProbeTimes(store[i]) :
        t1 < t2 =>
            /\ Classify(<< Columns(store[i]) >>, t1) = "FRESH" =>
                   Classify(<< Columns(store[i]) >>, t2) \in {"FRESH", "STALE"}
            /\ Classify(<< Columns(store[i]) >>, t1) = "STALE" =>
                   Classify(<< Columns(store[i]) >>, t2) = "STALE"

\* C18 witness: a request has found STALE the record that was FRESH when an
\* earlier request stored it
C18_Witness ==
    /\ program = "instagram_api"
    /\ pc = "refresh"
    /\ latest_metrics # <<>>
    /\ Classify(latest_metrics, latest_metrics[1].collection_date) = "FRESH"
    /\ Classify(latest_metrics, now) = "STALE"

\* C19: get_latest_metrics(username) returns None when the table has no
\* record of the username, and otherwise a record of the username whose
\* collection_date is the greatest of the username's records, whatever
\* store_metrics calls came before.
C19_LatestIsMaxCollectionDate ==
    (program = "instagram_db" /\ pc = "done") =>
        IF RowsOf(store, subject) = {}
        THEN latest_metrics = <<>>
        ELSE /\ latest_metrics # <<>>
             /\ \E i \in RowsOf(store, subject) :
                    /\ Columns(store[i]) = latest_metrics[1]
                    /\ \A k \in RowsOf(store, subject) :
                           store[k].collection_date <= store[i].collection_date

\* C19 witness: the record returned was stored before a record of the same
\* username with a smaller collection_date, and the other username has a
\* record with a greater one
C19_Witness ==
    /\ program = "instagram_db"
    /\ pc = "done"
    /\ latest_metrics # <<>>
    /\ \E i, j \in RowsOf(store, subject) :
          /\ i < j
          /\ store[j].collection_date < store[i].collection_date
          /\ Columns(store[i]) = latest_metrics[1]
    /\ \E k \in 1..Len(store) :
          /\ store[k].username # subject
          /\ store[k].collection_date > latest_metrics[1].collection_date

\* a step in which store_metrics has been called and has returned
StoreMetricsReturned ==
    \/ program = "instagram_db" /\ requests' = requests + 1
    \/ tries' = tries + 1 /\ attempt'.stored

\* C20: the table is append-only: every step of every operation and request
\* path keeps the records there are, unchanged and in place, and every
\* store_metrics call adds exactly one record, with an id no record had.
C20_StoreIsAppendOnly ==
    [][ /\ Len(store') >= Len(store)
        /\ SubSeq(store', 1, Len(store)) = store
        /\ Len(store') <= Len(store) + 1
        /\ StoreMetricsReturned <=> Len(store') = Len(store) + 1
        /\ Len(store') = Len(store) + 1 =>
               \A i \in 1..Len(store) : store[i].id # store'[Len(store')].id
      ]_vars

\* C20 witness: a request has added a second record to the table behind
\* the first
C20_Witness ==
    /\ pc = "done"
    /\ tries > 0
    /\ Len(store) = 2
    /\ store_at_start = SubSeq(store, 1, 1)
    /\ store[1].id # store[2].id

\* C21: a request whose refresh failed with no record of the subject in the
\* store is answered with an error status (404, 500 or 503) and an error
\* body, and every response with status 200 carries metric values.
C21_ErrorStatusWhenNothingServed ==
    pc = "done" =>
        /\ (RefreshFailed /\ latest_metrics = <<>>) =>
               (result.error /\ result.status >= 400)
        /\ result.status = HTTP_OK =>
               (~result.error /\ result.followers_count # NoValue)

\* C22: in instagram_api_server.py, whenever the store holds a record of the
\* requested username the response carries metric values (the cached record
\* when the refresh does not succeed, the fetched counts when it does) and
\* is never an HTTP error response, whatever get_profile_stats does (a
\* fetched record that the store then refuses is not the case meant).
C22_CachedRecordIsAlwaysServed ==
    ( /\ program = "instagram_api_server"
      /\ pc = "done"
      /\ latest_metrics # <<>>
      /\ ~(RefreshSucceeded /\ ~attempt.stored) ) =>
        /\ result.status = HTTP_OK
        /\ ~result.error
        /\ IF RefreshSucceeded THEN result.followers_count = attempt.followers
                               ELSE Serves(latest_metrics[1])

\* an entry of the list is syntactically valid: a row with a second column
\* of the form login:secret, or an account of the accounts list
HasValidEntry(input) ==
    IF input.kind = "accounts" THEN input.accounts # <<>>
    ELSE /\ input.exists
         /\ \E i \in 2..Len(input.lines) : input.lines[i] \in {"one_colon", "two_colons"}

\* the exceptions with which the loading of a pool refuses its input
LoadErrors == { "FileNotFoundError", "StopIteration", "ValueError" }

\* C23: when the credential list is empty or holds no syntactically valid
\* entry, the construction of the CredentialManager and of the InstaWrapper
\* raises the error of the loading step, and no pool and no active
\* credential exist at any time.
C23_UnusableListIsRefused ==
    (program = "credential_loading" /\ ~HasValidEntry(credentials_input)) =>
        /\ construction.manager \in LoadErrors \cup {"not called"}
        /\ construction.wrapper \in LoadErrors \cup {"not called"}
        /\ credentials = <<>>
        /\ current_credential = NoCred
        /\ ~credential_manager_ready

\* C23 witness: both constructions have refused a file whose rows are all
\* malformed
C23_Witness ==
    /\ program = "credential_loading"
    /\ ~HasValidEntry(credentials_input)
    /\ credentials_input.kind = "csv_file"
    /\ Len(credentials_input.lines) = MaxFileLines
    /\ construction = [ manager |-> "ValueError", wrapper |-> "ValueError" ]

\* C24: InstaWrapper.get_profile returns None, so that get_profile_stats
\* reports exists False and the endpoint without a cached record answers
\* "Profile not found", only when the fetch reported the profile as not
\* existing; never after attempts that all failed on a rate limit, a
\* connection error or a login failure.
C24_NoneOnlyForMissingProfile ==
    ( /\ program = "instagram_api_server"
      /\ pc = "done"
      /\ tries > 0
      /\ result = ProfileNotFound ) =>
        attempt.outcome = "NotFound"

\* the request thread h has returned a refreshed result
HandlerRefreshed(h) ==
    /\ handlers[h].pc = "done"
    /\ handlers[h].metrics # <<>>

\* the record thread h appended is in the store, complete
HandlerRecordStored(h) ==
    /\ handlers[h].db_record_id \in 1..Len(store)
    /\ store[handlers[h].db_record_id].id = handlers[h].db_record_id
    /\ store[handlers[h].db_record_id].username = subject
    /\ store[handlers[h].db_record_id].followers_count = handlers[h].metrics[1].followers
    /\ store[handlers[h].db_record_id].posts_count = handlers[h].metrics[1].posts
    /\ ~StrptimeFails(store[handlers[h].db_record_id].collection_date)

\* the request thread h has returned metric values and no error
HandlerServed(h) ==
    /\ handlers[h].result.error = FALSE
    /\ handlers[h].result.followers_count = handlers[h].metrics[1].followers
    /\ handlers[h].result.posts_count = handlers[h].metrics[1].posts

\* both requests found the same stale record and both fetches succeeded
BothRefreshed ==
    /\ program = "instagram_api_threads"
    /\ \A h \in Threads : HandlerRefreshed(h) /\ handlers[h].latest_metrics # <<>>
    /\ handlers[1].latest_metrics = handlers[2].latest_metrics

\* C25 as stated: when two concurrent requests for the same subject find its
\* record stale and both fetches succeed, each returns a non-error result
\* and the store ends with the records it had followed by both new ones.
C25_BothRefreshesAppend ==
    BothRefreshed =>
        /\ \A h \in Threads : HandlerServed(h) /\ HandlerRecordStored(h)
        /\ handlers[1].db_record_id # handlers[2].db_record_id
        /\ Len(store) = 3

\* C25 amended: each returns a non-error result with the counts it fetched,
\* and every record whose INSERT succeeded is in the store, complete and
\* under its own id: the store holds the record it had and one new record
\* per successful INSERT, both when neither INSERT failed.
C25_NoStoredAppendIsLost ==
    BothRefreshed =>
        /\ \A h \in Threads :
             /\ HandlerServed(h)
             /\ handlers[h].db_record_id # NoValue => HandlerRecordStored(h)
        /\ Len(store) = 1 + Cardinality({ h \in Threads : handlers[h].db_record_id # NoValue })
        /\ (\A h \in Threads : handlers[h].db_record_id # NoValue) =>
               handlers[1].db_record_id # handlers[2].db_record_id

\* C25 witness: both threads read the stale record before either stored,
\* and both records are in the store
C25_Witness ==
    /\ BothRefreshed
    /\ Len(store) = 3
    /\ store[2].username = "x"
    /\ store[3].username = "x"
    /\ \A h \in Threads : handlers[h].db_record_id \in {2, 3}

\* a session file of this age is there and younger than 24 hours
Young(age) == age # NoValue /\ age < SESSION_TTL

\* the last get_loader call had a credential and no usable _loader for it
\* and went on to the session file, or the last get_instagram_metrics call
\* ran setup_loader with a login and a password
SessionWasSetUp ==
    \/ /\ program = "instagram_api"
       /\ tries > 0
       /\ attempt.session \in {"restored", "login", "failed"}
       /\ ~(attempt.session = "failed" /\ attempt.login = "none")
    \/ /\ program = "get_followers"
       /\ attempt.session \in {"restored", "login", "None"}

\* C26: without a usable in-memory session, get_loader and setup_loader
\* call load_session_from_file exactly when the session file exists and is
\* younger than 24 hours, call login exactly when the file is absent, is 24
\* hours old or older, or its restoration failed, and a loader obtained by
\* login is returned with the session file written at that time.
C26_SessionRestoredOnlyWhenYoung ==
    SessionWasSetUp =>
        /\ attempt.restore # "none" <=> Young(attempt.artifact_age)
        /\ attempt.login # "none" <=>
               (~Young(attempt.artifact_age) \/ attempt.restore = "failed")
        /\ attempt.session = "restored" <=> attempt.restore = "ok"
        /\ attempt.session = "login" <=> attempt.login = "ok"
        /\ attempt.login = "ok" =>
               /\ session_files[attempt.credential] # NoValue
               /\ session_files[attempt.credential] = loader_created

\* C26 witness: setup_loader found a session file exactly 24 hours old and
\* logged in anew
C26_Witness ==
    /\ program = "get_followers"
    /\ attempt.artifact_age = SESSION_TTL
    /\ attempt.restore = "none"
    /\ attempt.login = "ok"
    /\ session_files[attempt.credential] = now

C28_MetricsRetriesOnlyConnectionErrors ==
    (program = "get_followers" /\ pc \in {"fetch", "done"}) =>
        /\ fetch_calls <= max_retries
        /\ tries = fetch_calls
        /\ tries >= 2 => attempt.previous_outcome \in {"ConnError", "RateLimited"}
        /\ attempt.outcome \in {"ok", "NotFound", "OtherError"} => pc = "done"
        /\ store # store_at_start =>
               /\ attempt.outcome = "ok"
               /\ metrics_call.store_in_db
               /\ GainedOneRecord
        /\ (pc = "done" /\ attempt.outcome # "ok") =>
               /\ metrics_call.returned
               /\ metrics_call.metrics = <<>>
               /\ metrics_call.db_record_id = NoValue
        /\ (pc = "done" /\ attempt.outcome = "ok") =>
               /\ metrics_call.metrics =
                      << [ followers |-> attempt.followers, posts |-> attempt.posts ] >>
               /\ metrics_call.db_record_id # NoValue <=> attempt.stored

\* C28 witness: with retries = 2 a connection error was followed by a
\* successful fetch, and the record was stored
C28_Witness ==
    /\ program = "get_followers"
    /\ pc = "done"
    /\ max_retries = 2
    /\ tries = 2
    /\ attempt.previous_outcome = "ConnError"
    /\ attempt.stored
    /\ metrics_call.db_record_id = Len(store)

\* refresh_metrics_data has returned after using up its attempts
AttemptsExhausted ==
    /\ RefreshFailed
    /\ attempt.credential # NoCred
    /\ attempt.session # "failed"

\* C29: the loop of refresh_metrics_data terminates.  Every iteration either
\* returns or increases retry_count, which never exceeds max_retries, so a
\* started refresh always ends; it ends with the success result or with an
\* error result (which get_latest_data replaces by the cached record when
\* there is one), and after exhausted attempts the error carries the number
\* of iterations that were made.
C29_RefreshLoopTerminates ==
    /\ [](program = "instagram_api" =>
            /\ retry_count <= max_retries
            /\ max_retries <= MAX_ATTEMPTS
            /\ pc = "refresh" => (retry_count < max_retries /\ tries = retry_count)
            /\ (pc = "done" /\ tries >= 1) =>
                   \/ /\ attempt.outcome = "ok"
                      /\ ~result.error
                      /\ result.followers_count = attempt.followers
                      /\ result.posts_count = attempt.posts
                   \/ /\ attempt.outcome # "ok"
                      /\ latest_metrics = <<>>
                      /\ result.error
                   \/ /\ attempt.outcome # "ok"
                      /\ latest_metrics # <<>>
                      /\ result = Cached(latest_metrics[1], TRUE)
            /\ (AttemptsExhausted /\ latest_metrics = <<>>) =>
                   /\ tries = max_retries
                   /\ retry_count = max_retries
                   /\ result.reported_attempts = tries)
    /\ [][(program = "instagram_api" /\ pc = "refresh" /\ tries' # tries) =>
              /\ tries' = tries + 1
              /\ \/ pc' = "done"
                 \/ retry_count' = retry_count + 1]_vars
    /\ (program = "instagram_api" /\ pc = "refresh") ~> (pc = "done")

\* C29 witness: three iterations failed and the error reports three attempts
C29_Witness ==
    /\ program = "instagram_api"
    /\ AttemptsExhausted
    /\ latest_metrics = <<>>
    /\ tries = MAX_ATTEMPTS
    /\ result.reported_attempts = MAX_ATTEMPTS

\* C30: on every non-empty credential list, lists with equal entries
\* included, _rotate_credential(force=True) finds a candidate, selects a
\* credential of the list and returns True.
C30_ForcedRotationAlwaysSelects ==
    ( /\ program = "credential_manager"
      /\ rotation.called
      /\ rotation.force ) =>
        /\ rotation.ret = "True"
        /\ last_rotation_time = rotation.at
        /\ \E i \in 1..Len(credentials) : credentials[i] = current_credential

C32_ReturnedLoaderIsAuthenticated ==
    program = "get_loader_threads" =>
        \A h \in Threads :
            (handlers[h].pc = "done" /\ handlers[h].ret # NoLoader) =>
                handlers[h].ret_authenticated

\* C33: a successful refresh returns what the record it stored holds: the
\* same last_updated as its collection_date and the same followers_count,
\* posts_count and recent_posts_count, so that a later call served from the
\* cache gives the same answer.
C33_RefreshReturnsStoredRecord ==
    ( /\ program \in {"instagram_api_clock", "instagram_api_server"}
      /\ RefreshSucceeded
      /\ attempt.stored ) =>
        /\ Len(store) = Len(store_at_start) + 1
        /\ Serves(store[Len(store)])

\* C36: get_historical_data(username, limit) returns at most limit records,
\* all of them records of the username, in non-increasing collection_date
\* order, and when it returns any its first record has the collection_date
\* that get_latest_metrics(username) returns.
C36_HistoryIsLatestFirst ==
    (program = "instagram_db" /\ pc = "done" /\ historical_data.called) =>
        LET rows == historical_data.rows
            mine == { i \in 1..Len(store) : store[i].username = subject }
        IN  /\ Len(rows) <= historical_data.limit
            /\ Len(rows) <= Cardinality(mine)
            /\ (Len(rows) < historical_data.limit) => Len(rows) = Cardinality(mine)
            /\ \E f \in [1..Len(rows) -> mine] :
                   /\ \A i, j \in 1..Len(rows) : i # j => f[i] # f[j]
                   /\ \A i \in 1..Len(rows) : Columns(store[f[i]]) = rows[i]
            /\ \A i, j \in 1..Len(rows) :
                   i < j => rows[i].collection_date >= rows[j].collection_date
            /\ rows # <<>> =>
                   /\ \A k \in mine : store[k].collection_date <= rows[1].collection_date
                   /\ \A latest \in LatestMetrics(store, subject) :
                          /\ latest # <<>>
                          /\ latest[1].collection_date = rows[1].collection_date

\* C36 witness: the limit cut the history of a username short, the records
\* were stored out of date order, and the other username has a later record
C36_Witness ==
    /\ program = "instagram_db"
    /\ pc = "done"
    /\ historical_data.called
    /\ Len(historical_data.rows) = 2
    /\ historical_data.limit = 2
    /\ Cardinality({ i \in 1..Len(store) : store[i].username = subject }) > 2
    /\ historical_data.rows[1].collection_date > historical_data.rows[2].collection_date
    /\ \E i, j \in 1..Len(store) :
          /\ i < j
          /\ store[i].username = subject
          /\ store[j].username = subject
          /\ store[i].collection_date > store[j].collection_date

\* the record row is one that was stored for username
StoredFor(row, username) ==
    \E i \in 1..Len(store) :
        /\ store[i].username = username
        /\ Columns(store[i]) = row

\* C34: the store is keyed by subject.  store_metrics for one username
\* leaves what get_latest_metrics and get_historical_data return for every
\* other username as it was, and what a query for a username returns are
\* records stored for that username.
C34_StoreIsKeyedBySubject ==
    /\ []((program = "instagram_db" /\ pc = "done") =>
            /\ latest_metrics # <<>> => StoredFor(latest_metrics[1], subject)
            /\ \A k \in 1..Len(historical_data.rows) :
                   StoredFor(historical_data.rows[k], subject))
    /\ [][(program = "instagram_db" /\ store' # store) =>
              \A other \in DbUsernames :
                  other # store'[Len(store')].username =>
                      /\ LatestMetrics(store', other) = LatestMetrics(store, other)
                      /\ \A limit \in 0..MaxLimit :
                             HistoricalData(store', other, limit)
                                 = HistoricalData(store, other, limit)]_vars

\* C34 witness: a history of two records was returned for one username
\* while the table also holds a record of the other username that is later
\* than both
C34_Witness ==
    /\ program = "instagram_db"
    /\ pc = "done"
    /\ historical_data.called
    /\ Len(historical_data.rows) = 2
    /\ \E i \in 1..Len(store) :
          /\ store[i].username # subject
          /\ store[i].collection_date > historical_data.rows[1].collection_date
          /\ i < Len(store)

\* C35: in sequential use get_loader hands out the memoised loader only
\* when it was created for the username of the active credential; once the
\* active credential is another one, the loader of the previous credential
\* is neither returned nor used for a fetch.
C35_LoaderBelongsToActiveCredential ==
    program = "instagram_api" =>
        /\ loader # NoLoader => loader.username = loader_session_username
        /\ (pc \in {"refresh", "done"} /\ tries >= 1 /\ attempt.outcome # "none") =>
               /\ attempt.credential = current_credential
               /\ loader # NoLoader
               /\ loader.username = attempt.credential
        /\ (pc \in {"refresh", "done"} /\ tries >= 1 /\ attempt.session = "memo") =>
               loader_session_username = current_credential

\* C35 witness: the first iteration of a later request was served by the
\* memoised loader of the active credential, in a pool of several
\* credentials
C35_Witness ==
    /\ program = "instagram_api"
    /\ pc \in {"refresh", "done"}
    /\ tries = 1
    /\ attempt.session = "memo"
    /\ Len(credentials) >= 2
    /\ loader.username = current_credential

====
